---- MODULE Spec2Model ----
(***************************************************************************)
(* A model of go-sox's resilience layer: the circuit breaker (circuit.go), *)
(* the retry executor and the Task lifecycle (sox.go), the worker pool and *)
(* the StreamConverter with incremental flush.                             *)
(***************************************************************************)
EXTENDS Integers, Sequences, FiniteSets, TLC

(***************************************************************************)
(* Bounds of the model.                                                    *)
(***************************************************************************)
NumCallers == 2
MaxCalls == 5
MaxTime == 3
NumPoolUsers == 3
MaxOutput == 3
MaxTicks == 2
MaxSinkFaults == 1
MaxScOps == 4
MaxOps == 4
MaxTaskOut == 2
MaxTaskTicks == 2
InputLen == 2
OutLen == 1
MaxPartial == 1
MaxLkWrites == 3
MaxLkTicks == 3
MaxAfOps == 3

(***************************************************************************)
(* The configuration the breaker (NewCircuitBreakerWithConfig) and the     *)
(* retry loop (RetryConfig) are built with.                                *)
(***************************************************************************)
MaxFailures == 2
ResetTimeout == 1
HalfOpenRequests == 2
MaxAttempts == 3
\* NewPoolWithLimit(maxWorkers)
PoolMaxWorkers == 2
InitialBackoff == 1
MaxBackoff == 3
BackoffMultiple == 2

\* The goroutines that call the breaker directly; the retry executor's own id;
\* the other conversions of the executor's Task, enough to fill the half-open probes.
Callers == 1..NumCallers
Exec == 0
Peers == 1..HalfOpenRequests
AllCallers == {Exec} \cup Callers \cup Peers

VARIABLES
    cb,         \* the CircuitBreaker's fields
    now,        \* the clock time.Now reads
    callPc,     \* per caller: "idle", or "fn" while the wrapped function runs
    callErr,    \* per caller: what its last Call returned
    nCalls,     \* Calls begun so far
    lastBegin,  \* the caller of the Call begun last (0: none yet)
    fnInvoked,  \* times a wrapped function was invoked
    admitted,   \* per caller: the state beforeRequest admitted its Call in
    streak,     \* failing Calls since the last success or Reset
    episode     \* the half-open episode: no failure or Reset since it began, successes in it

VARIABLES
    rPc,         \* the retry loop: "idle", "check", "fn", "sleep", "done"
    attempt,     \* the loop variable of executeWithRetryStream
    backoff,     \* its backoff variable
    rResult,     \* what executeWithRetryStream returned
    rWrapped,    \* the attempt count and the cause its error carries
    lastErr,     \* its lastErr variable
    ctxDone,     \* ctx has been cancelled
    useBreaker,  \* c.circuitBreaker != nil
    formatValid, \* c.Input.Validate() and c.Output.Validate() return nil
    attemptLog,  \* the error of each attempt made, in order
    sleeps,      \* the backoff sleeps completed, in order
    rInvoked     \* times the executor invoked convertInternal

VARIABLES
    semaphore,  \* Pool: the number of tokens in the semaphore channel
    active,     \* Pool: the active counter
    poolPc,     \* per pool user: "idle", "select", "got", "holding", "releasing"
    poolCtx,    \* per pool user: the ctx of its Acquire is cancelled
    poolErr     \* per pool user: what its last Acquire returned

cbVars ==
    <<cb, now, callPc, callErr, nCalls, lastBegin, fnInvoked, admitted, streak,
      episode>>
retryVars ==
    <<rPc, attempt, backoff, rResult, rWrapped, lastErr, ctxDone, useBreaker,
      formatValid, attemptLog, sleeps, rInvoked>>

poolVars == <<semaphore, active, poolPc, poolCtx, poolErr>>

\* The StreamConverter: its fields, the positions of its goroutines, what
\* the output file has been handed, and the counters that bound a run.
VARIABLES
    started, closed, acquired, releases, buffer, lastFlushPosition,
    outputFile, sink, stdinClosed, readDone, drainPc, flushStopChan,
    stopSignalled, tickerStopped, tickPending, loopPc, loopSnap, scPc, scOp,
    callSnap, scRet, nScOps, nTicks, nFaults, nInput, readOff, acquires

scVars ==
    <<started, closed, acquired, releases, buffer, lastFlushPosition,
      outputFile, sink, stdinClosed, readDone, drainPc, flushStopChan,
      stopSignalled, tickerStopped, tickPending, loopPc, loopSnap, scPc, scOp,
      callSnap, scRet, nScOps, nTicks, nFaults, nInput, readOff,
      acquires>>

\* The Task: its fields, the worker process and the goroutines Start
\* creates, the caller's position and last result, and what the calls so
\* far amount to.
VARIABLES
    tickerMode, streamStarted, streamClosed, streamStdin, streamCmd,
    streamOutputDone, streamBuffer, streamOutput, stdinBytes, stdinCloses,
    waits, nWorkers, nDrains, copyPc, procPc, ticker, nTickers, nLoops,
    liveLoops, tickerStopClosed, tTickPending, tickerBuffer, flushLog,
    taskPc, taskRet, taskOp, lifecycle, stopSucceeded, nOps, nStops,
    nTaskTicks, tickerReset, tickerDropped

taskVars ==
    <<tickerMode, streamStarted, streamClosed, streamStdin, streamCmd,
      streamOutputDone, streamBuffer, streamOutput, stdinBytes,
      stdinCloses, waits, nWorkers, nDrains, copyPc, procPc, ticker,
      nTickers, nLoops, liveLoops, tickerStopClosed, tTickPending,
      tickerBuffer, flushLog, taskPc, taskRet, taskOp, lifecycle,
      stopSucceeded, nOps, nStops, nTaskTicks, tickerReset, tickerDropped>>

\* The data path of one stream conversion.
VARIABLES
    ioPc,       \* its executeWithRetryStream: "idle", "check", "fn", "sleep", "done"
    ioAttempt,  \* the loop variable
    inputStart, \* the offset input was at when the conversion was called
    inputPos,   \* the offset input is at
    readLog,    \* the offset each attempt's worker started to read input at
    outputBuf,  \* what output has received, each byte marked with its attempt
    ioResult    \* what executeWithRetryStream returned

ioVars ==
    <<ioPc, ioAttempt, inputStart, inputPos, readLog, outputBuf, ioResult>>

\* tickerLock of a ticker-mode Task and the goroutines that take it.
VARIABLES
    tickerLock, \* who holds c.tickerLock: "free", "loop", "stop"
    tkPc,       \* the goroutine of runTicker: "idle", "select", "lock", "convert", "exited"
    wrPc,       \* the goroutine in Write: "idle", "lock"
    stPc,       \* the goroutine in Stop: "idle", "lock", "convert", "done"
    lkBuffer,   \* c.tickerBuffer.Len()
    lkStop,     \* c.tickerStop is closed
    nLkWrites,  \* Write calls made
    nLkTicks    \* ticks taken

lockVars ==
    <<tickerLock, tkPc, wrPc, stPc, lkBuffer, lkStop, nLkWrites, nLkTicks>>

\* The StreamConverter of stream.go with one-shot auto-flush.
VARIABLES
    afPc,         \* per goroutine: "idle", "select", "stop", "close", "stdin", "read", "wait", "exited"
    afOp,         \* the caller's operation
    afRet,        \* per goroutine: what its operation returned
    afStarted,    \* s.started
    afClosed,     \* s.closed
    afChan,       \* s.flushStopChan: "nil" or "set"
    afChanClosed, \* the stop channel has been closed
    afStdin,      \* the worker's input: "nil", "open", "closed"
    afReadDone,   \* messages in s.readDone
    afDrain,      \* readOutput: "none", "reading", "exited"
    afProc,       \* the worker: "none", "running", "exited", "failed", "killed"
    afAcquired,   \* s.acquired
    afTick,       \* a tick waits in flushTicker.C
    afPanic,      \* the panic that ended the program
    afCount,      \* slots acquired and released, closes of the stop channel and of stdin, file writes
    nAfOps        \* calls the caller made

oneShotVars ==
    <<afPc, afOp, afRet, afStarted, afClosed, afChan, afChanClosed, afStdin,
      afReadDone, afDrain, afProc, afAcquired, afTick, afPanic, afCount,
      nAfOps>>

vars ==
    <<cbVars, retryVars, poolVars, scVars, taskVars, ioVars, lockVars,
      oneShotVars>>

\* What the steps of one component leave alone.
cbRetryRest ==
    <<poolVars, scVars, taskVars, ioVars, lockVars,
      oneShotVars>>
poolRest ==
    <<cbVars, retryVars, scVars, taskVars, ioVars, lockVars,
      oneShotVars>>
scRest ==
    <<cbVars, retryVars, poolVars, taskVars, ioVars, lockVars,
      oneShotVars>>
taskRest ==
    <<cbVars, retryVars, poolVars, scVars, ioVars, lockVars,
      oneShotVars>>

(***************************************************************************)
(* circuit.go                                                              *)
(***************************************************************************)
StateClosed == "Closed"
StateOpen == "Open"
StateHalfOpen == "HalfOpen"

ErrCircuitOpen == "ErrCircuitOpen"
ErrTooManyRequests == "ErrTooManyRequests"

\* The zero time.Time of a breaker that has seen no failure: far in the past.
ZeroTime == 0 - (MaxTime + ResetTimeout + 2)

NewCircuitBreakerWithConfig ==
    [ state         |-> StateClosed,
      failures      |-> 0,
      lastFailTime  |-> ZeroTime,
      successCount  |-> 0,
      requestsInFly |-> 0 ]

\* time.Since(cb.lastFailTime) > cb.resetTimeout
resetElapsedEager(b, t) == t - b.lastFailTime >= ResetTimeout

resetElapsed(b, t) == t - b.lastFailTime > ResetTimeout

beforeRequestCounting(b, t) ==
    LET b1 == IF b.state = StateOpen /\ resetElapsed(b, t)
              THEN [b EXCEPT !.state = StateHalfOpen,
                             !.successCount = 0,
                             !.requestsInFly = 0]
              ELSE b
        refused == [b1 EXCEPT !.failures = @ + 1, !.lastFailTime = t]
    IN  CASE b1.state = StateOpen -> [cb |-> refused, err |-> ErrCircuitOpen]
          [] b1.state = StateHalfOpen ->
                IF b1.requestsInFly >= HalfOpenRequests
                THEN [cb |-> refused, err |-> ErrTooManyRequests]
                ELSE [cb |-> [b1 EXCEPT !.requestsInFly = @ + 1], err |-> "nil"]
          [] OTHER -> [cb |-> b1, err |-> "nil"]

\* beforeRequest: the breaker after the admission check, and the error returned.
beforeRequest(b, t) ==
    LET b1 == IF b.state = StateOpen /\ resetElapsed(b, t)
              THEN [b EXCEPT !.state = StateHalfOpen,
                             !.successCount = 0,
                             !.requestsInFly = 0]
              ELSE b
    IN  CASE b1.state = StateOpen -> [cb |-> b1, err |-> ErrCircuitOpen]
          [] b1.state = StateHalfOpen ->
                IF b1.requestsInFly >= HalfOpenRequests
                THEN [cb |-> b1, err |-> ErrTooManyRequests]
                ELSE [cb |-> [b1 EXCEPT !.requestsInFly = @ + 1], err |-> "nil"]
          [] OTHER -> [cb |-> b1, err |-> "nil"]

onSuccessStrict(b) ==
    LET b1 == [b EXCEPT !.failures = 0]
    IN  IF b1.state = StateHalfOpen
        THEN LET b2 == [b1 EXCEPT !.successCount = @ + 1]
             IN  IF b2.successCount > HalfOpenRequests
                 THEN [b2 EXCEPT !.state = StateClosed]
                 ELSE b2
        ELSE b1

onSuccess(b) ==
    LET b1 == [b EXCEPT !.failures = 0]
    IN  IF b1.state = StateHalfOpen
        THEN LET b2 == [b1 EXCEPT !.successCount = @ + 1]
             IN  IF b2.successCount >= HalfOpenRequests
                 THEN [b2 EXCEPT !.state = StateClosed]
                 ELSE b2
        ELSE b1

onFailureStrict(b, t) ==
    LET b1 == [b EXCEPT !.failures = @ + 1, !.lastFailTime = t]
    IN  IF b1.failures > MaxFailures
        THEN [b1 EXCEPT !.state = StateOpen]
        ELSE b1

onFailure(b, t) ==
    LET b1 == [b EXCEPT !.failures = @ + 1, !.lastFailTime = t]
    IN  IF b1.failures >= MaxFailures
        THEN [b1 EXCEPT !.state = StateOpen]
        ELSE b1

\* afterRequest: err is "nil" or the wrapped function's error.
afterRequest(b, err, t) ==
    LET b1 == IF b.state = StateHalfOpen
              THEN [b EXCEPT !.requestsInFly = @ - 1]
              ELSE b
    IN  IF err # "nil" THEN onFailure(b1, t) ELSE onSuccess(b1)

\* Reset forces the breaker closed.
ResetBreaker(b) ==
    [b EXCEPT !.state = StateClosed, !.failures = 0, !.successCount = 0]

(***************************************************************************)
(* Call, in its two critical sections: beforeRequest, then (the wrapped    *)
(* function having run outside the lock) afterRequest.                     *)
(***************************************************************************)
FnErrors == {"nil", "err"}

CallBegin(c) ==
    /\ callPc[c] = "idle"
    /\ LET r == beforeRequest(cb, now)
       IN  /\ cb' = r.cb
           /\ nCalls' = nCalls + 1
           /\ lastBegin' = c
           /\ IF r.err # "nil"
              THEN /\ callErr' = [callErr EXCEPT ![c] = r.err]
                   /\ UNCHANGED <<callPc, fnInvoked, admitted>>
              ELSE /\ callPc' = [callPc EXCEPT ![c] = "fn"]
                   /\ fnInvoked' = fnInvoked + 1
                   /\ admitted' = [admitted EXCEPT ![c] = r.cb.state]
                   /\ callErr' = [callErr EXCEPT ![c] = "none"]
           /\ episode' = IF cb.state = StateOpen /\ r.cb.state = StateHalfOpen
                         THEN [clean |-> TRUE, succ |-> 0]
                         ELSE episode
    /\ UNCHANGED <<now, streak>>

\* The wrapped function of caller c returns err, and afterRequest runs.
CallEndWith(c, err) ==
    /\ callPc[c] = "fn"
    /\ cb' = afterRequest(cb, err, now)
    /\ callErr' = [callErr EXCEPT ![c] = err]
    /\ streak' = IF err = "nil" THEN 0 ELSE streak + 1
    /\ episode' = IF err = "nil"
                  THEN [episode EXCEPT !.succ = IF episode.clean THEN @ + 1 ELSE @]
                  ELSE [episode EXCEPT !.clean = FALSE]
    /\ callPc' = [callPc EXCEPT ![c] = "idle"]
    /\ UNCHANGED <<now, nCalls, lastBegin, fnInvoked, admitted>>

CallEnd(c) == \E err \in FnErrors : CallEndWith(c, err)

Reset ==
    /\ cb' = ResetBreaker(cb)
    /\ streak' = 0
    /\ episode' = [episode EXCEPT !.clean = FALSE]
    /\ UNCHANGED <<now, callPc, callErr, nCalls, lastBegin, fnInvoked, admitted>>

Tick ==
    /\ now < MaxTime
    /\ now' = now + 1
    /\ UNCHANGED <<cb, callPc, callErr, nCalls, lastBegin, fnInvoked, admitted,
                   streak, episode>>

(***************************************************************************)
(* The worker pool: Acquire and Release, in the steps other goroutines can *)
(* interleave with.                                                        *)
(***************************************************************************)
PoolUsers == 1..NumPoolUsers

\* The send p.semaphore <- struct{}{} can proceed: the channel is not full.
slotFreeLoose == semaphore <= PoolMaxWorkers

slotFree == semaphore < PoolMaxWorkers

\* Acquire is called with a fresh ctx and reaches the select.
AcquireCall(u) ==
    /\ poolPc[u] = "idle"
    /\ poolPc' = [poolPc EXCEPT ![u] = "select"]
    /\ poolCtx' = [poolCtx EXCEPT ![u] = FALSE]
    /\ poolErr' = [poolErr EXCEPT ![u] = "none"]
    /\ UNCHANGED <<semaphore, active>>

\* case p.semaphore <- struct{}{}
AcquireSlot(u) ==
    /\ poolPc[u] = "select"
    /\ slotFree
    /\ semaphore' = semaphore + 1
    /\ poolPc' = [poolPc EXCEPT ![u] = "got"]
    /\ UNCHANGED <<active, poolCtx, poolErr>>

\* p.mu.Lock(); p.active++; p.mu.Unlock(); return nil
AcquireCount(u) ==
    /\ poolPc[u] = "got"
    /\ active' = active + 1
    /\ poolPc' = [poolPc EXCEPT ![u] = "holding"]
    /\ poolErr' = [poolErr EXCEPT ![u] = "nil"]
    /\ UNCHANGED <<semaphore, poolCtx>>

\* case <-ctx.Done()
AcquireCancelled(u) ==
    /\ poolPc[u] = "select"
    /\ poolCtx[u]
    /\ poolPc' = [poolPc EXCEPT ![u] = "idle"]
    /\ poolErr' = [poolErr EXCEPT ![u] = "pool acquire cancelled"]
    /\ UNCHANGED <<semaphore, active, poolCtx>>

\* The ctx of a pending Acquire is cancelled or times out.
PoolCtxCancel(u) ==
    /\ poolPc[u] = "select"
    /\ ~poolCtx[u]
    /\ poolCtx' = [poolCtx EXCEPT ![u] = TRUE]
    /\ UNCHANGED <<semaphore, active, poolPc, poolErr>>

\* Release by a holder: p.mu.Lock(); p.active--; p.mu.Unlock()
ReleaseCount(u) ==
    /\ poolPc[u] = "holding"
    /\ active' = active - 1
    /\ poolPc' = [poolPc EXCEPT ![u] = "releasing"]
    /\ UNCHANGED <<semaphore, poolCtx, poolErr>>

ReleaseSlotLeaky(u) ==
    /\ poolPc[u] = "releasing"
    /\ poolPc' = [poolPc EXCEPT ![u] = "idle"]
    /\ UNCHANGED <<semaphore, active, poolCtx, poolErr>>

\* <-p.semaphore
ReleaseSlot(u) ==
    /\ poolPc[u] = "releasing"
    /\ semaphore > 0
    /\ semaphore' = semaphore - 1
    /\ poolPc' = [poolPc EXCEPT ![u] = "idle"]
    /\ UNCHANGED <<active, poolCtx, poolErr>>

NewPoolWithLimit ==
    /\ semaphore = 0
    /\ active = 0

PoolIdle ==
    /\ NewPoolWithLimit
    /\ poolPc = [u \in PoolUsers |-> "idle"]
    /\ poolCtx = [u \in PoolUsers |-> FALSE]
    /\ poolErr = [u \in PoolUsers |-> "none"]

(***************************************************************************)
(* The StreamConverter with incremental flush (WithPool, WithOutputPath    *)
(* and WithAutoFlush): one caller goroutine, the readOutput goroutine, the *)
(* autoFlushLoop goroutine and the ticker.  A byte of the worker's output  *)
(* is named by its position in the accumulated output, so buffer is a      *)
(* length and sink the sequence of positions handed to outputFile.         *)
(***************************************************************************)
NoSnap == [from |-> 0, to |-> 0, off |-> 0]

\* The positions of data[from:to]; buffer.Bytes() starts readOff bytes into
\* the accumulated output, readOff being what Read has consumed.
Slice(from, to) == [i \in 1..(to - from) |-> from + i]

\* writeAvailableData up to the snapshot newData := bufferData[lastFlushPosition:].
wadSnapshot ==
    IF closed \/ outputFile = "nil" THEN NoSnap
    ELSE IF buffer <= lastFlushPosition THEN NoSnap
    ELSE [from |-> lastFlushPosition, to |-> buffer, off |-> readOff]

\* outputFile.Write(data) for len(data) = n: (written, err).
FileWrite(n) ==
    IF outputFile # "open" THEN {[n |-> 0, err |-> "err"]}
    ELSE {[n |-> n, err |-> "nil"]}
         \cup (IF nFaults < MaxSinkFaults
                  THEN {[n |-> k, err |-> "err"] : k \in 0..(n - 1)}
                  ELSE {})

\* outputFile.Sync()
FileSync == {"nil"} \cup (IF nFaults < MaxSinkFaults THEN {"err"} ELSE {})

\* The checkpoint after Write returned w and Sync returned sync.
checkpointAfter(w, sync) ==
    IF w.err # "nil" THEN lastFlushPosition
    ELSE IF sync # "nil" THEN lastFlushPosition
    ELSE lastFlushPosition + w.n

\* writeAvailableData from outputFileLock.Lock() to its return.
wadWrite(snap) ==
    IF outputFile = "nil"
    THEN UNCHANGED <<sink, lastFlushPosition, nFaults>>
    ELSE \E w \in FileWrite(snap.to - snap.from) :
         \E sync \in (IF w.err = "nil" THEN FileSync ELSE {"none"}) :
            /\ sink' = sink \o Slice(snap.off + snap.from,
                                      snap.off + snap.from + w.n)
            /\ lastFlushPosition' = checkpointAfter(w, sync)
            /\ nFaults' = IF w.err # "nil" \/ sync = "err"
                             THEN nFaults + 1 ELSE nFaults

\* The final write of Flush and Close: outputFile.Write(data[lastFlushPosition:])
\* with its result dropped; lastFlushPosition stays.
finalWrite ==
    IF buffer > lastFlushPosition
    THEN \E w \in FileWrite(buffer - lastFlushPosition) :
            /\ sink' = sink \o Slice(readOff + lastFlushPosition,
                                      readOff + lastFlushPosition + w.n)
            /\ nFaults' = IF w.err # "nil" THEN nFaults + 1 ELSE nFaults
    ELSE UNCHANGED <<sink, nFaults>>

\* releasePool without the s.acquired guard.
releasePoolUnguarded ==
    acquired' = FALSE /\ releases' = releases + 1

\* releasePool
releasePool ==
    IF acquired
    THEN acquired' = FALSE /\ releases' = releases + 1
    ELSE UNCHANGED <<acquired, releases>>

\* Start: a failure before cmd.Start returns releases the slot and leaves
\* started false; success starts readOutput, the ticker and autoFlushLoop.
SCStart ==
    /\ scPc = "idle"
    /\ nScOps < MaxScOps
    /\ nScOps' = nScOps + 1
    /\ IF started
       THEN /\ scRet' = "err"
            /\ UNCHANGED <<started, acquired, releases, outputFile, readDone,
                           drainPc, flushStopChan, loopPc, acquires>>
       ELSE \/ \* pool.Acquire fails
               /\ scRet' = "err"
               /\ UNCHANGED <<started, acquired, releases, outputFile,
                              readDone, drainPc, flushStopChan, loopPc,
                              acquires>>
            \/ \* validation, a pipe, os.OpenFile or cmd.Start fails
               /\ scRet' = "err"
               /\ acquires' = acquires + 1
               /\ acquired' = FALSE
               /\ releases' = releases + 1
               /\ outputFile' \in {outputFile, "open"}
               /\ UNCHANGED <<started, readDone, drainPc, flushStopChan,
                              loopPc>>
            \/ /\ scRet' = "nil"
               /\ acquires' = acquires + 1
               /\ acquired' = TRUE
               /\ outputFile' = "open"
               /\ readDone' = "empty"
               /\ drainPc' = "reading"
               /\ flushStopChan' = "open"
               /\ loopPc' = "select"
               /\ started' = TRUE
               /\ UNCHANGED releases
    /\ UNCHANGED <<closed, buffer, lastFlushPosition, sink, stdinClosed,
                   stopSignalled, tickerStopped, tickPending, loopSnap,
                   scPc, scOp, callSnap, nTicks, nFaults, nInput>>
    /\ UNCHANGED readOff
    /\ UNCHANGED scRest

\* Write(data)
SCWrite ==
    /\ scPc = "idle"
    /\ nScOps < MaxScOps
    /\ nScOps' = nScOps + 1
    /\ IF ~started \/ closed \/ stdinClosed
       THEN scRet' = "err" /\ UNCHANGED nInput
       ELSE scRet' = "nil" /\ nInput' = nInput + 1
    /\ UNCHANGED <<started, closed, acquired, releases, buffer,
                   lastFlushPosition, outputFile, sink, stdinClosed,
                   readDone, drainPc, flushStopChan, stopSignalled,
                   tickerStopped, tickPending, loopPc, loopSnap, scPc,
                   scOp, callSnap, nTicks, nFaults>>
    /\ UNCHANGED readOff
    /\ UNCHANGED acquires
    /\ UNCHANGED scRest

\* readOutput: s.stdout.Read returned n > 0 bytes.
ReadOutputData ==
    /\ drainPc = "reading"
    /\ buffer < MaxOutput
    /\ buffer' = buffer + 1
    /\ UNCHANGED <<started, closed, acquired, releases, lastFlushPosition,
                   outputFile, sink, stdinClosed, readDone, drainPc,
                   flushStopChan, stopSignalled, tickerStopped,
                   tickPending, loopPc, loopSnap, scPc, scOp, callSnap,
                   scRet, nScOps, nTicks, nFaults, nInput>>
    /\ UNCHANGED readOff
    /\ UNCHANGED acquires
    /\ UNCHANGED scRest

\* readOutput: the worker closed its output after its input was closed.
ReadOutputEOF ==
    /\ drainPc = "reading"
    /\ stdinClosed
    /\ readDone' = "full"
    /\ drainPc' = "exited"
    /\ UNCHANGED <<started, closed, acquired, releases, buffer,
                   lastFlushPosition, outputFile, sink, stdinClosed,
                   flushStopChan, stopSignalled, tickerStopped,
                   tickPending, loopPc, loopSnap, scPc, scOp, callSnap,
                   scRet, nScOps, nTicks, nFaults, nInput>>
    /\ UNCHANGED readOff
    /\ UNCHANGED acquires
    /\ UNCHANGED scRest

\* flushTicker delivers a tick on its channel (capacity 1).
TickerFires ==
    /\ loopPc # "none"
    /\ ~tickerStopped
    /\ ~tickPending
    /\ nTicks < MaxTicks
    /\ nTicks' = nTicks + 1
    /\ tickPending' = TRUE
    /\ UNCHANGED <<started, closed, acquired, releases, buffer,
                   lastFlushPosition, outputFile, sink, stdinClosed,
                   readDone, drainPc, flushStopChan, stopSignalled,
                   tickerStopped, loopPc, loopSnap, scPc, scOp, callSnap,
                   scRet, nScOps, nFaults, nInput>>
    /\ UNCHANGED readOff
    /\ UNCHANGED acquires
    /\ UNCHANGED scRest

\* autoFlushLoop: case <-s.flushTicker.C, writeAvailableData up to the snapshot.
LoopTick ==
    /\ loopPc = "select"
    /\ tickPending
    /\ tickPending' = FALSE
    /\ loopSnap' = wadSnapshot
    /\ loopPc' = IF wadSnapshot = NoSnap THEN "select" ELSE "write"
    /\ UNCHANGED <<started, closed, acquired, releases, buffer,
                   lastFlushPosition, outputFile, sink, stdinClosed,
                   readDone, drainPc, flushStopChan, stopSignalled,
                   tickerStopped, scPc, scOp, callSnap, scRet, nScOps,
                   nTicks, nFaults, nInput>>
    /\ UNCHANGED readOff
    /\ UNCHANGED acquires
    /\ UNCHANGED scRest

\* autoFlushLoop: the rest of writeAvailableData, back to the select.
LoopWrite ==
    /\ loopPc = "write"
    /\ wadWrite(loopSnap)
    /\ loopSnap' = NoSnap
    /\ loopPc' = "select"
    /\ UNCHANGED <<started, closed, acquired, releases, buffer, outputFile,
                   stdinClosed, readDone, drainPc, flushStopChan,
                   stopSignalled, tickerStopped, tickPending, scPc, scOp,
                   callSnap, scRet, nScOps, nTicks, nInput>>
    /\ UNCHANGED readOff
    /\ UNCHANGED acquires
    /\ UNCHANGED scRest

\* autoFlushLoop: case <-s.flushStopChan
LoopStop ==
    /\ loopPc = "select"
    /\ stopSignalled
    /\ tickerStopped' = TRUE
    /\ loopPc' = "exited"
    /\ UNCHANGED <<started, closed, acquired, releases, buffer,
                   lastFlushPosition, outputFile, sink, stdinClosed,
                   readDone, drainPc, flushStopChan, stopSignalled,
                   tickPending, loopSnap, scPc, scOp, callSnap, scRet,
                   nScOps, nTicks, nFaults, nInput>>
    /\ UNCHANGED readOff
    /\ UNCHANGED acquires
    /\ UNCHANGED scRest

\* stopAutoFlush up to flushWaitGroup.Wait(), and where the caller goes next.
stopAutoFlush ==
    IF flushStopChan = "open"
    THEN /\ tickerStopped' = TRUE
         /\ stopSignalled' = TRUE
         /\ flushStopChan' = "nil"
         /\ scPc' = "wait"
    ELSE /\ scPc' = "wad"
         /\ UNCHANGED <<tickerStopped, stopSignalled, flushStopChan>>

\* Flush is called: its guards and stopAutoFlush.
FlushCall ==
    /\ scPc = "idle"
    /\ nScOps < MaxScOps
    /\ nScOps' = nScOps + 1
    /\ IF ~started \/ closed
       THEN /\ scRet' = "err"
            /\ UNCHANGED <<scPc, scOp, tickerStopped, stopSignalled,
                           flushStopChan>>
       ELSE /\ scRet' = "pending"
            /\ scOp' = "Flush"
            /\ stopAutoFlush
    /\ UNCHANGED <<started, closed, acquired, releases, buffer,
                   lastFlushPosition, outputFile, sink, stdinClosed,
                   readDone, drainPc, tickPending, loopPc, loopSnap,
                   callSnap, nTicks, nFaults, nInput>>
    /\ UNCHANGED readOff
    /\ UNCHANGED acquires
    /\ UNCHANGED scRest

\* Close is called: its guards and stopAutoFlush.
CloseCall ==
    /\ scPc = "idle"
    /\ nScOps < MaxScOps
    /\ nScOps' = nScOps + 1
    /\ IF ~started \/ closed
       THEN /\ scRet' = "nil"
            /\ UNCHANGED <<scPc, scOp, tickerStopped, stopSignalled,
                           flushStopChan>>
       ELSE /\ scRet' = "pending"
            /\ scOp' = "Close"
            /\ stopAutoFlush
    /\ UNCHANGED <<started, closed, acquired, releases, buffer,
                   lastFlushPosition, outputFile, sink, stdinClosed,
                   readDone, drainPc, tickPending, loopPc, loopSnap,
                   callSnap, nTicks, nFaults, nInput>>
    /\ UNCHANGED readOff
    /\ UNCHANGED acquires
    /\ UNCHANGED scRest

\* s.flushWaitGroup.Wait() returns.
CallerLoopDone ==
    /\ scPc = "wait"
    /\ loopPc = "exited"
    /\ scPc' = "wad"
    /\ UNCHANGED <<started, closed, acquired, releases, buffer,
                   lastFlushPosition, outputFile, sink, stdinClosed,
                   readDone, drainPc, flushStopChan, stopSignalled,
                   tickerStopped, tickPending, loopPc, loopSnap, scOp,
                   callSnap, scRet, nScOps, nTicks, nFaults, nInput>>
    /\ UNCHANGED readOff
    /\ UNCHANGED acquires
    /\ UNCHANGED scRest

\* Flush/Close: if s.incrementalFlush && s.outputFile != nil, writeAvailableData
\* up to the snapshot.
CallerSnapshot ==
    /\ scPc = "wad"
    /\ callSnap' = wadSnapshot
    /\ scPc' = IF wadSnapshot = NoSnap THEN "stdin" ELSE "write"
    /\ UNCHANGED <<started, closed, acquired, releases, buffer,
                   lastFlushPosition, outputFile, sink, stdinClosed,
                   readDone, drainPc, flushStopChan, stopSignalled,
                   tickerStopped, tickPending, loopPc, loopSnap, scOp,
                   scRet, nScOps, nTicks, nFaults, nInput>>
    /\ UNCHANGED readOff
    /\ UNCHANGED acquires
    /\ UNCHANGED scRest

\* Flush/Close: the rest of writeAvailableData.
CallerWrite ==
    /\ scPc = "write"
    /\ wadWrite(callSnap)
    /\ callSnap' = NoSnap
    /\ scPc' = "stdin"
    /\ UNCHANGED <<started, closed, acquired, releases, buffer, outputFile,
                   stdinClosed, readDone, drainPc, flushStopChan,
                   stopSignalled, tickerStopped, tickPending, loopPc,
                   loopSnap, scOp, scRet, nScOps, nTicks, nInput>>
    /\ UNCHANGED readOff
    /\ UNCHANGED acquires
    /\ UNCHANGED scRest

\* s.stdin.Close(): Flush returns its error, Close drops it.
CallerCloseStdin ==
    /\ scPc = "stdin"
    /\ IF scOp = "Flush" /\ stdinClosed
       THEN /\ releasePool
            /\ scRet' = "err"
            /\ scPc' = "idle"
            /\ scOp' = "none"
            /\ UNCHANGED stdinClosed
       ELSE /\ stdinClosed' = TRUE
            /\ scPc' = "read"
            /\ UNCHANGED <<acquired, releases, scRet, scOp>>
    /\ UNCHANGED <<started, closed, buffer, lastFlushPosition, outputFile,
                   sink, readDone, drainPc, flushStopChan, stopSignalled,
                   tickerStopped, tickPending, loopPc, loopSnap, callSnap,
                   nScOps, nTicks, nFaults, nInput>>
    /\ UNCHANGED readOff
    /\ UNCHANGED acquires
    /\ UNCHANGED scRest

\* <-s.readDone
CallerReadDone ==
    /\ scPc = "read"
    /\ readDone = "full"
    /\ readDone' = "empty"
    /\ scPc' = "proc"
    /\ UNCHANGED <<started, closed, acquired, releases, buffer,
                   lastFlushPosition, outputFile, sink, stdinClosed,
                   drainPc, flushStopChan, stopSignalled, tickerStopped,
                   tickPending, loopPc, loopSnap, scOp, callSnap, scRet,
                   nScOps, nTicks, nFaults, nInput>>
    /\ UNCHANGED readOff
    /\ UNCHANGED acquires
    /\ UNCHANGED scRest

\* Flush: s.cmd.Wait(), then s.closed = true and s.releasePool().
FlushFinish ==
    /\ scPc = "proc"
    /\ scOp = "Flush"
    /\ \/ \* cmd.Wait returns an error
          /\ releasePool
          /\ scRet' = "err"
          /\ scPc' = "idle"
          /\ scOp' = "none"
          /\ UNCHANGED closed
       \/ /\ closed' = TRUE
          /\ releasePool
          /\ scPc' = "final"
          /\ UNCHANGED <<scRet, scOp>>
    /\ UNCHANGED <<started, buffer, lastFlushPosition, stdinClosed,
                   readDone, drainPc, flushStopChan, stopSignalled,
                   tickerStopped, tickPending, loopPc, loopSnap, callSnap,
                   nScOps, nTicks, nInput, sink, nFaults, outputFile>>
    /\ UNCHANGED readOff
    /\ UNCHANGED acquires
    /\ UNCHANGED scRest

\* Flush: the final write of data[lastFlushPosition:], Sync, Close, return.
FlushFinal ==
    /\ scPc = "final"
    /\ scOp = "Flush"
    /\ IF outputFile # "nil"
       THEN finalWrite /\ outputFile' = "closed"
       ELSE UNCHANGED <<sink, nFaults, outputFile>>
    /\ scRet' = "nil"
    /\ scPc' = "idle"
    /\ scOp' = "none"
    /\ UNCHANGED <<started, closed, acquired, releases, buffer,
                   lastFlushPosition, stdinClosed, readDone, drainPc,
                   flushStopChan, stopSignalled, tickerStopped, tickPending,
                   loopPc, loopSnap, callSnap, nScOps, nTicks, nInput>>
    /\ UNCHANGED readOff
    /\ UNCHANGED acquires
    /\ UNCHANGED scRest

\* Close: the process has exited or was killed.
CloseFinish ==
    /\ scPc = "proc"
    /\ scOp = "Close"
    /\ scPc' = "final"
    /\ UNCHANGED <<started, closed, acquired, releases, buffer,
                   lastFlushPosition, outputFile, sink, stdinClosed,
                   readDone, drainPc, flushStopChan, stopSignalled,
                   tickerStopped, tickPending, loopPc, loopSnap, scOp,
                   callSnap, scRet, nScOps, nTicks, nFaults, nInput>>
    /\ UNCHANGED readOff
    /\ UNCHANGED acquires
    /\ UNCHANGED scRest

\* Close: the final write of data[lastFlushPosition:], Sync, Close of the
\* file.
CloseFinal ==
    /\ scPc = "final"
    /\ scOp = "Close"
    /\ IF outputFile # "nil"
       THEN finalWrite /\ outputFile' = "nil"
       ELSE UNCHANGED <<sink, nFaults, outputFile>>
    /\ scPc' = "release"
    /\ UNCHANGED <<started, closed, acquired, releases, buffer,
                   lastFlushPosition, stdinClosed, readDone, drainPc,
                   flushStopChan, stopSignalled, tickerStopped, tickPending,
                   loopPc, loopSnap, scOp, callSnap, scRet, nScOps, nTicks,
                   nInput>>
    /\ UNCHANGED readOff
    /\ UNCHANGED acquires
    /\ UNCHANGED scRest

\* Close: s.closed = true, s.releasePool(), return nil.
CloseRelease ==
    /\ scPc = "release"
    /\ closed' = TRUE
    /\ releasePool
    /\ scRet' = "nil"
    /\ scPc' = "idle"
    /\ scOp' = "none"
    /\ UNCHANGED <<started, buffer, lastFlushPosition, outputFile, sink,
                   stdinClosed, readDone, drainPc, flushStopChan,
                   stopSignalled, tickerStopped, tickPending, loopPc,
                   loopSnap, callSnap, nScOps, nTicks, nFaults, nInput>>
    /\ UNCHANGED readOff
    /\ UNCHANGED acquires
    /\ UNCHANGED scRest

\* Read(p) with len(p) > 0: buffer.Read consumes up to len(p) unread bytes.
SCRead ==
    /\ scPc = "idle"
    /\ nScOps < MaxScOps
    /\ nScOps' = nScOps + 1
    /\ IF buffer = 0
       THEN scRet' = "EOF" /\ UNCHANGED <<buffer, readOff>>
       ELSE \E n \in 1..buffer :
               /\ buffer' = buffer - n
               /\ readOff' = readOff + n
               /\ scRet' = "nil"
    /\ UNCHANGED <<started, closed, acquired, releases, lastFlushPosition,
                   outputFile, sink, stdinClosed, readDone, drainPc,
                   flushStopChan, stopSignalled, tickerStopped, tickPending,
                   loopPc, loopSnap, scPc, scOp, callSnap, nTicks, nFaults,
                   nInput>>
    /\ UNCHANGED acquires
    /\ UNCHANGED scRest

\* NewStreamConverter(...).WithPool(pool).WithOutputPath(path).WithAutoFlush(d)
NewStreamConverter ==
    /\ started = FALSE
    /\ closed = FALSE
    /\ acquired = FALSE
    /\ releases = 0
    /\ buffer = 0
    /\ lastFlushPosition = 0
    /\ outputFile = "nil"
    /\ sink = <<>>
    /\ stdinClosed = FALSE
    /\ readDone = "nil"
    /\ drainPc = "none"
    /\ flushStopChan = "nil"
    /\ stopSignalled = FALSE
    /\ tickerStopped = FALSE
    /\ tickPending = FALSE
    /\ loopPc = "none"
    /\ loopSnap = NoSnap
    /\ scPc = "idle"
    /\ scOp = "none"
    /\ callSnap = NoSnap
    /\ scRet = "none"
    /\ nScOps = 0
    /\ nTicks = 0
    /\ nFaults = 0
    /\ nInput = 0
    /\ readOff = 0
    /\ acquires = 0

(***************************************************************************)
(* The Task in stream mode (WithStream) or ticker mode (WithTicker): one   *)
(* caller goroutine calling Start, Write and Stop, the worker process, the *)
(* goroutine that copies its output, the ticker and the ticker loops.      *)
(* Buffers are lengths.  lifecycle follows the calls: Idle until a Start   *)
(* returns nil, Started until Stop is called on the started Task, then     *)
(* Stopped.                                                                *)
(***************************************************************************)
\* Stop: if !c.streamStarted || c.streamClosed { return nil }
stopIsNoopLoose == ~streamStarted

stopIsNoop == ~streamStarted \/ streamClosed

\* The ways Start's stream branch ends after it has set streamStarted.
StartOutcomes == {"stdinPipeFails", "stdoutPipeFails", "cmdStartFails", "ok"}

\* convertInternal's result for a flush of the ticker buffer.
ConvertResults == {"nil", "err"}

\* Task.flushTickerBuffer: converts a copy of the whole buffer and keeps the
\* buffer (the Reset is commented out).  An entry of flushLog names the bytes
\* from + 1 .. from + len, tickerDropped being the bytes Reset has removed.
flushTickerBufferKeep(res) ==
    IF tickerBuffer = 0
    THEN UNCHANGED <<flushLog, tickerBuffer, tickerDropped>>
    ELSE /\ flushLog' = Append(flushLog, [from |-> tickerDropped,
                                          len |-> tickerBuffer, err |-> res])
         /\ UNCHANGED <<tickerBuffer, tickerDropped>>

\* Converter.flushTickerBuffer: copies the buffer, resets it, then converts
\* the copy.
flushTickerBufferReset(res) ==
    IF tickerBuffer = 0
    THEN UNCHANGED <<flushLog, tickerBuffer, tickerDropped>>
    ELSE /\ flushLog' = Append(flushLog, [from |-> tickerDropped,
                                          len |-> tickerBuffer, err |-> res])
         /\ tickerBuffer' = 0
         /\ tickerDropped' = tickerDropped + tickerBuffer

flushTickerBuffer(res) ==
    IF tickerReset THEN flushTickerBufferReset(res)
    ELSE flushTickerBufferKeep(res)

\* Start
TaskStart ==
    /\ taskPc = "idle"
    /\ nOps < MaxOps
    /\ nOps' = nOps + 1
    /\ taskOp' = "Start"
    /\ IF tickerMode
       THEN \* runTicker, tickerDuration > 0
            /\ ticker' = "running"
            /\ nTickers' = nTickers + 1
            /\ nLoops' = nLoops + 1
            /\ liveLoops' = liveLoops + 1
            /\ tTickPending' = FALSE
            /\ taskRet' = "nil"
            /\ lifecycle' = IF lifecycle = "Idle" THEN "Started" ELSE lifecycle
            /\ UNCHANGED <<streamStarted, streamClosed, streamStdin,
                           streamCmd, streamOutputDone, streamOutput, procPc,
                           nWorkers, copyPc, nDrains>>
       ELSE IF streamStarted
       THEN /\ taskRet' = "err"
            /\ UNCHANGED <<streamStarted, streamClosed, streamStdin,
                           streamCmd, streamOutputDone, streamOutput, procPc,
                           nWorkers, copyPc, nDrains, ticker, nTickers,
                           nLoops, liveLoops, tTickPending, lifecycle>>
       ELSE /\ streamStarted' = TRUE
            /\ streamClosed' = FALSE
            /\ streamOutput' = 0
            /\ streamOutputDone' = "empty"
            /\ \E o \in StartOutcomes :
                  \* a failed cmd.Start closes the parent's ends of the pipes
                  /\ streamStdin' = CASE o = "stdinPipeFails" -> streamStdin
                                       [] o = "cmdStartFails" -> "closed"
                                       [] OTHER -> "open"
                  /\ IF o = "ok"
                     THEN /\ streamCmd' = "started"
                          /\ procPc' = "running"
                          /\ nWorkers' = nWorkers + 1
                          /\ copyPc' = "copying"
                          /\ nDrains' = nDrains + 1
                          /\ taskRet' = "nil"
                          /\ lifecycle' = IF lifecycle = "Idle"
                                             THEN "Started" ELSE lifecycle
                     ELSE /\ taskRet' = "err"
                          /\ UNCHANGED <<streamCmd, procPc, nWorkers, copyPc,
                                         nDrains, lifecycle>>
            /\ UNCHANGED <<ticker, nTickers, nLoops, liveLoops, tTickPending>>
    /\ UNCHANGED <<tickerMode, streamBuffer, stdinBytes, stdinCloses,
                   waits, tickerStopClosed, tickerBuffer, flushLog, taskPc,
                   stopSucceeded, nStops, nTaskTicks>>
    /\ UNCHANGED tickerDropped
    /\ UNCHANGED tickerReset
    /\ UNCHANGED taskRest

\* Write(data), one byte of data
TaskWrite ==
    /\ taskPc = "idle"
    /\ nOps < MaxOps
    /\ nOps' = nOps + 1
    /\ taskOp' = "Write"
    /\ IF tickerMode
       THEN /\ tickerBuffer' = tickerBuffer + 1
            /\ taskRet' = "nil"
            /\ UNCHANGED <<streamBuffer, stdinBytes>>
       ELSE IF ~streamStarted \/ streamClosed \/ streamStdin = "nil"
       THEN /\ taskRet' = "err"
            /\ UNCHANGED <<tickerBuffer, streamBuffer, stdinBytes>>
       ELSE /\ streamBuffer' = streamBuffer + 1
            /\ IF streamStdin = "open"
               THEN stdinBytes' = stdinBytes + 1 /\ taskRet' = "nil"
               ELSE taskRet' = "err" /\ UNCHANGED stdinBytes
            /\ UNCHANGED tickerBuffer
    /\ UNCHANGED <<tickerMode, streamStarted, streamClosed, streamStdin,
                   streamCmd, streamOutputDone, streamOutput, stdinCloses,
                   waits, nWorkers, nDrains, copyPc, procPc, ticker,
                   nTickers, nLoops, liveLoops, tickerStopClosed,
                   tTickPending, flushLog, taskPc, lifecycle,
                   stopSucceeded, nStops, nTaskTicks>>
    /\ UNCHANGED tickerDropped
    /\ UNCHANGED tickerReset
    /\ UNCHANGED taskRest

\* Stop is called: stopTicker in ticker mode; in stream mode the guards, then
\* streamClosed = true and streamStdin.Close().
TaskStopCall ==
    /\ taskPc = "idle"
    /\ nOps < MaxOps
    /\ nOps' = nOps + 1
    /\ nStops' = nStops + 1
    /\ taskOp' = "Stop"
    /\ IF tickerMode
       THEN /\ ticker' = IF ticker # "nil" THEN "stopped" ELSE ticker
            /\ IF ticker # "nil" /\ tickerStopClosed
               THEN \* close of a closed channel
                    /\ taskPc' = "panic"
                    /\ taskRet' = "panic"
                    /\ UNCHANGED <<tickerStopClosed, flushLog, tickerBuffer,
                                   tickerDropped>>
               ELSE /\ tickerStopClosed' = (ticker # "nil")
                    /\ \E res \in ConvertResults :
                          /\ flushTickerBuffer(res)
                          /\ taskRet' = IF tickerBuffer = 0 THEN "nil" ELSE res
                    /\ UNCHANGED taskPc
            /\ lifecycle' = IF lifecycle = "Started" THEN "Stopped"
                            ELSE lifecycle
            /\ UNCHANGED <<streamClosed, streamStdin, stdinCloses>>
       ELSE IF stopIsNoop
       THEN /\ taskRet' = "nil"
            /\ UNCHANGED <<taskPc, streamClosed, streamStdin, stdinCloses,
                           ticker, tickerStopClosed, flushLog, lifecycle,
                           tickerBuffer, tickerDropped>>
       ELSE /\ streamClosed' = TRUE
            /\ lifecycle' = IF lifecycle = "Started" THEN "Stopped"
                            ELSE lifecycle
            /\ IF streamStdin = "closed"
               THEN \* Close of a closed pipe returns an error
                    /\ taskRet' = "err"
                    /\ stdinCloses' = stdinCloses + 1
                    /\ UNCHANGED <<taskPc, streamStdin>>
               ELSE /\ streamStdin' = IF streamStdin = "open"
                                         THEN "closed" ELSE streamStdin
                    /\ stdinCloses' = IF streamStdin = "open"
                                         THEN stdinCloses + 1 ELSE stdinCloses
                    /\ taskRet' = "pending"
                    /\ taskPc' = IF streamCmd # "nil" THEN "stopWait"
                                 ELSE "stopDrain"
            /\ UNCHANGED <<ticker, tickerStopClosed, flushLog, tickerBuffer,
                           tickerDropped>>
    /\ UNCHANGED <<tickerMode, streamStarted, streamCmd, streamOutputDone,
                   streamBuffer, streamOutput, stdinBytes, waits, nWorkers,
                   nDrains, copyPc, procPc, nTickers, nLoops, liveLoops,
                   tTickPending, stopSucceeded, nTaskTicks>>
    /\ UNCHANGED tickerReset
    /\ UNCHANGED taskRest

\* Stop: c.streamCmd.Wait() returns once the worker has exited.
StopWait ==
    /\ taskPc = "stopWait"
    /\ procPc \in {"exitedOk", "exitedErr"}
    /\ waits' = waits + 1
    /\ streamCmd' = "waited"
    /\ IF procPc = "exitedErr"
       THEN taskRet' = "err" /\ taskPc' = "idle"
       ELSE taskPc' = "stopDrain" /\ UNCHANGED taskRet
    /\ UNCHANGED <<tickerMode, streamStarted, streamClosed, streamStdin,
                   streamOutputDone, streamBuffer, streamOutput,
                   stdinBytes, stdinCloses, nWorkers, nDrains, copyPc,
                   procPc, ticker, nTickers, nLoops, liveLoops,
                   tickerStopClosed, tTickPending, tickerBuffer, flushLog,
                   taskOp, lifecycle, stopSucceeded, nOps, nStops,
                   nTaskTicks>>
    /\ UNCHANGED tickerDropped
    /\ UNCHANGED tickerReset
    /\ UNCHANGED taskRest

\* Stop: <-c.streamOutputDone, then return nil.
StopDrain ==
    /\ taskPc = "stopDrain"
    /\ streamOutputDone = "full"
    /\ streamOutputDone' = "empty"
    /\ taskRet' = "nil"
    /\ taskPc' = "idle"
    /\ stopSucceeded' = TRUE
    /\ UNCHANGED <<tickerMode, streamStarted, streamClosed, streamStdin,
                   streamCmd, streamBuffer, streamOutput, stdinBytes,
                   stdinCloses, waits, nWorkers, nDrains, copyPc, procPc,
                   ticker, nTickers, nLoops, liveLoops, tickerStopClosed,
                   tTickPending, tickerBuffer, flushLog, taskOp, lifecycle,
                   nOps, nStops, nTaskTicks>>
    /\ UNCHANGED tickerDropped
    /\ UNCHANGED tickerReset
    /\ UNCHANGED taskRest

\* The worker exits after its input was closed.
ProcExit ==
    /\ procPc = "running"
    /\ streamStdin = "closed"
    /\ procPc' \in {"exitedOk", "exitedErr"}
    /\ UNCHANGED <<tickerMode, streamStarted, streamClosed, streamStdin,
                   streamCmd, streamOutputDone, streamBuffer, streamOutput,
                   stdinBytes, stdinCloses, waits, nWorkers, nDrains,
                   copyPc, ticker, nTickers, nLoops, liveLoops,
                   tickerStopClosed, tTickPending, tickerBuffer, flushLog,
                   taskPc, taskRet, taskOp, lifecycle, stopSucceeded, nOps,
                   nStops, nTaskTicks>>
    /\ UNCHANGED tickerDropped
    /\ UNCHANGED tickerReset
    /\ UNCHANGED taskRest

\* io.Copy(c.streamOutput, stdout) moves a byte of the worker's output.
DrainData ==
    /\ copyPc = "copying"
    /\ procPc = "running"
    /\ streamOutput < MaxTaskOut
    /\ streamOutput' = streamOutput + 1
    /\ UNCHANGED <<tickerMode, streamStarted, streamClosed, streamStdin,
                   streamCmd, streamOutputDone, streamBuffer, stdinBytes,
                   stdinCloses, waits, nWorkers, nDrains, copyPc, procPc,
                   ticker, nTickers, nLoops, liveLoops, tickerStopClosed,
                   tTickPending, tickerBuffer, flushLog, taskPc, taskRet,
                   taskOp, lifecycle, stopSucceeded, nOps, nStops,
                   nTaskTicks>>
    /\ UNCHANGED tickerDropped
    /\ UNCHANGED tickerReset
    /\ UNCHANGED taskRest

\* io.Copy returns at end of output; c.streamOutputDone <- err
DrainEOF ==
    /\ copyPc = "copying"
    /\ procPc \in {"exitedOk", "exitedErr"}
    /\ streamOutputDone' = "full"
    /\ copyPc' = "done"
    /\ UNCHANGED <<tickerMode, streamStarted, streamClosed, streamStdin,
                   streamCmd, streamBuffer, streamOutput, stdinBytes,
                   stdinCloses, waits, nWorkers, nDrains, procPc, ticker,
                   nTickers, nLoops, liveLoops, tickerStopClosed,
                   tTickPending, tickerBuffer, flushLog, taskPc, taskRet,
                   taskOp, lifecycle, stopSucceeded, nOps, nStops,
                   nTaskTicks>>
    /\ UNCHANGED tickerDropped
    /\ UNCHANGED tickerReset
    /\ UNCHANGED taskRest

\* c.ticker delivers a tick on its channel (capacity 1).
TaskTickerFires ==
    /\ taskPc # "panic"
    /\ ticker = "running"
    /\ ~tTickPending
    /\ nTaskTicks < MaxTaskTicks
    /\ nTaskTicks' = nTaskTicks + 1
    /\ tTickPending' = TRUE
    /\ UNCHANGED <<tickerMode, streamStarted, streamClosed, streamStdin,
                   streamCmd, streamOutputDone, streamBuffer, streamOutput,
                   stdinBytes, stdinCloses, waits, nWorkers, nDrains,
                   copyPc, procPc, ticker, nTickers, nLoops, liveLoops,
                   tickerStopClosed, tickerBuffer, flushLog, taskPc,
                   taskRet, taskOp, lifecycle, stopSucceeded, nOps, nStops>>
    /\ UNCHANGED tickerDropped
    /\ UNCHANGED tickerReset
    /\ UNCHANGED taskRest

\* A ticker loop: case <-c.ticker.C, with the result of the flush dropped.
TickerLoopTick ==
    /\ taskPc # "panic"
    /\ liveLoops > 0
    /\ tTickPending
    /\ tTickPending' = FALSE
    /\ \E res \in ConvertResults : flushTickerBuffer(res)
    /\ UNCHANGED <<tickerMode, streamStarted, streamClosed, streamStdin,
                   streamCmd, streamOutputDone, streamBuffer, streamOutput,
                   stdinBytes, stdinCloses, waits, nWorkers, nDrains,
                   copyPc, procPc, ticker, nTickers, nLoops, liveLoops,
                   tickerStopClosed, taskPc, taskRet, taskOp,
                   lifecycle, stopSucceeded, nOps, nStops, nTaskTicks>>
    /\ UNCHANGED tickerReset
    /\ UNCHANGED taskRest

\* A ticker loop: case <-c.tickerStop
TickerLoopExit ==
    /\ taskPc # "panic"
    /\ liveLoops > 0
    /\ tickerStopClosed
    /\ liveLoops' = liveLoops - 1
    /\ UNCHANGED <<tickerMode, streamStarted, streamClosed, streamStdin,
                   streamCmd, streamOutputDone, streamBuffer, streamOutput,
                   stdinBytes, stdinCloses, waits, nWorkers, nDrains,
                   copyPc, procPc, ticker, nTickers, nLoops,
                   tickerStopClosed, tTickPending, tickerBuffer, flushLog,
                   taskPc, taskRet, taskOp, lifecycle, stopSucceeded, nOps,
                   nStops, nTaskTicks>>
    /\ UNCHANGED tickerDropped
    /\ UNCHANGED tickerReset
    /\ UNCHANGED taskRest

\* The fields a constructor sets; rst tells whether flushTickerBuffer resets
\* the buffer.
NewFields(tm, rst) ==
    /\ tickerMode = tm
    /\ tickerReset = rst
    /\ tickerDropped = 0
    /\ streamStarted = FALSE
    /\ streamClosed = FALSE
    /\ streamStdin = "nil"
    /\ streamCmd = "nil"
    /\ streamOutputDone = "nil"
    /\ streamBuffer = 0
    /\ streamOutput = 0
    /\ stdinBytes = 0
    /\ stdinCloses = 0
    /\ waits = 0
    /\ nWorkers = 0
    /\ nDrains = 0
    /\ copyPc = "none"
    /\ procPc = "none"
    /\ ticker = "nil"
    /\ nTickers = 0
    /\ nLoops = 0
    /\ liveLoops = 0
    /\ tickerStopClosed = FALSE
    /\ tTickPending = FALSE
    /\ tickerBuffer = 0
    /\ flushLog = <<>>
    /\ taskPc = "idle"
    /\ taskRet = "none"
    /\ taskOp = "none"
    /\ lifecycle = "Idle"
    /\ stopSucceeded = FALSE
    /\ nOps = 0
    /\ nStops = 0
    /\ nTaskTicks = 0

\* Task: New(...).WithStream() or New(...).WithTicker(d)
New(tm) == NewFields(tm, FALSE)

\* Converter: NewTicker(input, output, interval)
NewTicker == NewFields(TRUE, TRUE)

InitBreaker ==
    /\ cb = NewCircuitBreakerWithConfig
    /\ now = 0
    /\ callPc = [c \in AllCallers |-> "idle"]
    /\ callErr = [c \in AllCallers |-> "none"]
    /\ nCalls = 0
    /\ lastBegin = 0 - 1
    /\ fnInvoked = 0
    /\ admitted = [c \in AllCallers |-> "none"]
    /\ streak = 0
    /\ episode = [clean |-> FALSE, succ |-> 0]

\* What the returned error wraps: nothing, or ctx.Err().
NoWrap == [n |-> 0, cause |-> "none"]
CtxErr == "ctx.Err"

\* No stream conversion moves data.
StreamIdle ==
    /\ ioPc = "idle"
    /\ ioAttempt = 0
    /\ inputStart = 0
    /\ inputPos = 0
    /\ readLog = <<>>
    /\ outputBuf = <<>>
    /\ ioResult = "none"

\* No StreamConverter of stream.go exists.
OneShotIdle ==
    /\ afPc = [g \in {"loop", "caller"} |-> "idle"]
    /\ afOp = "none"
    /\ afRet = [g \in {"loop", "caller"} |-> "none"]
    /\ afStarted = FALSE
    /\ afClosed = FALSE
    /\ afChan = "nil"
    /\ afChanClosed = FALSE
    /\ afStdin = "nil"
    /\ afReadDone = 0
    /\ afDrain = "none"
    /\ afProc = "none"
    /\ afAcquired = FALSE
    /\ afTick = FALSE
    /\ afPanic = "none"
    /\ afCount = [acquires |-> 0, releases |-> 0, chanCloses |-> 0,
                  stdinCloses |-> 0, fileWrites |-> 0]
    /\ nAfOps = 0

\* No goroutine is at tickerLock.
LockIdle ==
    /\ tickerLock = "free"
    /\ tkPc = "idle"
    /\ wrPc = "idle"
    /\ stPc = "idle"
    /\ lkBuffer = 0
    /\ lkStop = FALSE
    /\ nLkWrites = 0
    /\ nLkTicks = 0

\* No retry executor runs.
RetryIdle ==
    /\ rPc = "idle"
    /\ attempt = 0
    /\ backoff = 0
    /\ rResult = "none"
    /\ rWrapped = NoWrap
    /\ lastErr = "none"
    /\ ctxDone = FALSE
    /\ useBreaker = TRUE
    /\ formatValid = TRUE
    /\ attemptLog = <<>>
    /\ sleeps = <<>>
    /\ rInvoked = 0

(***************************************************************************)
(* SpecCB: goroutines calling one breaker concurrently.  SpecCBSeq: one    *)
(* goroutine calling it, one Call after the other.                         *)
(***************************************************************************)
InitCB ==
    /\ InitBreaker /\ RetryIdle /\ StreamIdle /\ PoolIdle
    /\ OneShotIdle /\ LockIdle /\ NewStreamConverter /\ New(FALSE)

CallBeginAny ==
    /\ nCalls < MaxCalls
    /\ \E c \in Callers : CallBegin(c)
    /\ UNCHANGED <<retryVars, cbRetryRest>>
CallEndAny == (\E c \in Callers : CallEnd(c)) /\ UNCHANGED <<retryVars, cbRetryRest>>
ResetCall == Reset /\ UNCHANGED <<retryVars, cbRetryRest>>
ClockTick == Tick /\ UNCHANGED <<retryVars, cbRetryRest>>

NextCB ==
    \/ CallBeginAny
    \/ CallEndAny
    \/ ResetCall
    \/ ClockTick

SpecCB == InitCB /\ [][NextCB]_vars

CallBeginOne ==
    /\ nCalls < MaxCalls
    /\ CallBegin(1)
    /\ UNCHANGED <<retryVars, cbRetryRest>>
CallEndOne == CallEnd(1) /\ UNCHANGED <<retryVars, cbRetryRest>>

NextCBSeq ==
    \/ CallBeginOne
    \/ CallEndOne
    \/ ResetCall
    \/ ClockTick

SpecCBSeq == InitCB /\ [][NextCBSeq]_vars

(***************************************************************************)
(* sox.go: executeWithRetryStream, the retry loop around convertInternal.  *)
(***************************************************************************)
ErrInvalidFormat == "ErrInvalidFormat"

\* What the loop does with the error of attempt att (lines 867-883).
afterAttemptLastFirst(err, att) ==
    IF att = MaxAttempts - 1 THEN "exhausted"
    ELSE IF err = "nil" THEN "return_nil"
    ELSE IF useBreaker /\ err = ErrCircuitOpen THEN "return_err"
    ELSE IF err = ErrInvalidFormat THEN "return_err"
    ELSE "backoff"

afterAttemptRetryAll(err, att) ==
    IF err = "nil" THEN "return_nil"
    ELSE IF att = MaxAttempts - 1 THEN "exhausted"
    ELSE "backoff"

afterAttemptEarly(err, att) ==
    IF err = "nil" THEN "return_nil"
    ELSE IF useBreaker /\ err = ErrCircuitOpen THEN "return_err"
    ELSE IF err = ErrInvalidFormat THEN "return_err"
    ELSE IF att >= MaxAttempts - 2 THEN "exhausted"
    ELSE "backoff"

afterAttempt(err, att) ==
    IF err = "nil" THEN "return_nil"
    ELSE IF useBreaker /\ err = ErrCircuitOpen THEN "return_err"
    ELSE IF err = ErrInvalidFormat THEN "return_err"
    ELSE IF att = MaxAttempts - 1 THEN "exhausted"
    ELSE "backoff"

\* backoff = time.Duration(float64(backoff) * BackoffMultiple), capped at MaxBackoff.
nextBackoff(b) ==
    IF b * BackoffMultiple > MaxBackoff THEN MaxBackoff ELSE b * BackoffMultiple

\* The loop's bookkeeping once an attempt has returned err.
RetryClassify(err) ==
    LET what == afterAttempt(err, attempt)
    IN  /\ attemptLog' = Append(attemptLog, err)
        /\ lastErr' = IF err = "nil" THEN lastErr ELSE err
        /\ rPc' = IF what = "backoff" THEN "sleep" ELSE "done"
        /\ rResult' = CASE what = "return_nil" -> "nil"
                        [] what = "return_err" -> err
                        [] what = "exhausted" -> "failed after attempts"
                        [] OTHER -> rResult
        /\ rWrapped' = IF what = "exhausted"
                          THEN [n |-> MaxAttempts, cause |-> err]
                          ELSE rWrapped
        /\ UNCHANGED <<attempt, backoff, ctxDone, useBreaker, formatValid, sleeps>>

\* The top of the loop: the ctx check, then circuitBreaker.Call up to the
\* invocation of convertInternal (or convertInternal directly).
RetryAttempt ==
    /\ rPc = "check"
    /\ IF ctxDone
       THEN /\ rPc' = "done"
            /\ rResult' = "conversion cancelled"
            /\ rWrapped' = [n |-> 0, cause |-> CtxErr]
            /\ UNCHANGED <<attempt, backoff, lastErr, ctxDone, useBreaker,
                           formatValid, attemptLog, sleeps, rInvoked>>
            /\ UNCHANGED cbVars
       ELSE IF useBreaker
       THEN /\ CallBegin(Exec)
            /\ IF callPc'[Exec] = "fn"
               THEN /\ rPc' = "fn"
                    /\ rInvoked' = rInvoked + 1
                    /\ UNCHANGED <<attempt, backoff, rResult, rWrapped, lastErr,
                                   ctxDone, useBreaker, formatValid, attemptLog,
                                   sleeps>>
               ELSE /\ RetryClassify(callErr'[Exec])
                    /\ UNCHANGED rInvoked
       ELSE /\ rPc' = "fn"
            /\ rInvoked' = rInvoked + 1
            /\ UNCHANGED <<attempt, backoff, rResult, rWrapped, lastErr, ctxDone,
                           useBreaker, formatValid, attemptLog, sleeps>>
            /\ UNCHANGED cbVars
    /\ UNCHANGED cbRetryRest

\* convertInternal's error: ErrInvalidFormat before any sox process is started
\* when a format is invalid, else nil or the failure of the sox process.
convertInternalErrors == IF formatValid THEN {"nil", "err"} ELSE {ErrInvalidFormat}

\* convertInternal returns; afterRequest runs; the loop classifies the error.
RetryFnReturn ==
    /\ rPc = "fn"
    /\ \E err \in convertInternalErrors :
          /\ IF useBreaker THEN CallEndWith(Exec, err) ELSE UNCHANGED cbVars
          /\ RetryClassify(err)
    /\ UNCHANGED rInvoked
    /\ UNCHANGED cbRetryRest

\* select: time.After(backoff) fires; backoff grows; the input is rewound.
RetryBackoffElapsed ==
    /\ rPc = "sleep"
    /\ sleeps' = Append(sleeps, backoff)
    /\ backoff' = nextBackoff(backoff)
    /\ attempt' = attempt + 1
    /\ rPc' = "check"
    /\ UNCHANGED <<rResult, rWrapped, lastErr, ctxDone, useBreaker, formatValid,
                   attemptLog, rInvoked>>
    /\ UNCHANGED cbVars
    /\ UNCHANGED cbRetryRest

RetryBackoffCancelledAsFailure ==
    /\ rPc = "sleep"
    /\ ctxDone
    /\ rPc' = "done"
    /\ rResult' = "failed after attempts"
    /\ rWrapped' = [n |-> MaxAttempts, cause |-> lastErr]
    /\ UNCHANGED <<attempt, backoff, lastErr, ctxDone, useBreaker, formatValid,
                   attemptLog, sleeps, rInvoked>>
    /\ UNCHANGED cbVars
    /\ UNCHANGED cbRetryRest

\* select: ctx.Done() fires during the backoff.
RetryBackoffCancelled ==
    /\ rPc = "sleep"
    /\ ctxDone
    /\ rPc' = "done"
    /\ rResult' = "conversion cancelled during backoff"
    /\ rWrapped' = [n |-> 0, cause |-> CtxErr]
    /\ UNCHANGED <<attempt, backoff, lastErr, ctxDone, useBreaker, formatValid,
                   attemptLog, sleeps, rInvoked>>
    /\ UNCHANGED cbVars
    /\ UNCHANGED cbRetryRest

\* The caller cancels ctx.
Cancel ==
    /\ rPc # "done"
    /\ ~ctxDone
    /\ ctxDone' = TRUE
    /\ UNCHANGED <<rPc, attempt, backoff, rResult, rWrapped, lastErr, useBreaker,
                   formatValid, attemptLog, sleeps, rInvoked>>
    /\ UNCHANGED cbVars
    /\ UNCHANGED cbRetryRest

\* ConvertWithContext has called executeWithRetryStream on a Task whose
\* breaker other conversions of the same Task use too.
InitRetry ==
    /\ InitBreaker
    /\ rPc = "check"
    /\ attempt = 0
    /\ backoff = InitialBackoff
    /\ rResult = "none"
    /\ rWrapped = NoWrap
    /\ lastErr = "none"
    /\ ctxDone = FALSE
    /\ useBreaker \in BOOLEAN
    /\ formatValid \in BOOLEAN
    /\ attemptLog = <<>>
    /\ sleeps = <<>>
    /\ rInvoked = 0
    /\ StreamIdle
    /\ PoolIdle /\ OneShotIdle /\ LockIdle
    /\ NewStreamConverter
    /\ New(FALSE)

\* Another conversion of the same Task calls the Task's breaker.
PeerCallBegin ==
    /\ useBreaker
    /\ nCalls < MaxCalls
    /\ \E c \in Peers : CallBegin(c)
    /\ UNCHANGED <<retryVars, cbRetryRest>>

PeerCallEnd ==
    /\ \E c \in Peers : CallEnd(c)
    /\ UNCHANGED <<retryVars, cbRetryRest>>

NextRetry ==
    \/ RetryAttempt
    \/ RetryFnReturn
    \/ RetryBackoffElapsed
    \/ RetryBackoffCancelled
    \/ Cancel
    \/ PeerCallBegin
    \/ PeerCallEnd
    \/ ClockTick

SpecRetry == InitRetry /\ [][NextRetry]_vars

(***************************************************************************)
(* SpecConverter: the retry executor of the Converter, whose convertInternal *)
(* acquires a pool slot after the format checks and before it starts sox.  *)
(***************************************************************************)
\* Converter.convertInternal: c.pool.Acquire(ctx) returns ctx.Err() because
\* ctx was cancelled while it waited for a slot; afterRequest runs and the
\* loop classifies the error.
ConverterAcquireFails ==
    /\ rPc = "fn"
    /\ formatValid
    /\ ctxDone
    /\ IF useBreaker THEN CallEndWith(Exec, "failed to acquire worker slot") ELSE UNCHANGED cbVars
    /\ RetryClassify("failed to acquire worker slot")
    /\ UNCHANGED rInvoked
    /\ UNCHANGED cbRetryRest

NextConverter == NextRetry \/ ConverterAcquireFails

SpecConverter == InitRetry /\ [][NextConverter]_vars

(***************************************************************************)
(* SpecStream: the data path of one executeWithRetryStream.  The input is  *)
(* the caller's io.ReadSeeker, used at whatever offset the caller left it; *)
(* the output is the caller's io.Writer.  The formats are valid and what   *)
(* the breaker answers is a choice here (SpecRetry computes it).           *)
(***************************************************************************)
streamRest ==
    <<cbVars, retryVars, poolVars, scVars, taskVars, lockVars,
      oneShotVars>>

InitStream ==
    /\ ioPc = "check"
    /\ ioAttempt = 0
    /\ inputStart \in 0..InputLen
    /\ inputPos = inputStart
    /\ readLog = <<>>
    /\ outputBuf = <<>>
    /\ ioResult = "none"
    /\ InitBreaker /\ RetryIdle /\ PoolIdle /\ OneShotIdle
    /\ LockIdle /\ NewStreamConverter /\ New(FALSE)

\* The top of the loop: ctx is done, or the breaker refuses the attempt, or
\* convertInternal starts the worker on input as it stands.  A refusal the
\* loop retries is followed by the backoff unless the attempt was the last.
StreamAttempt ==
    /\ ioPc = "check"
    /\ \/ /\ ioPc' = "done"
          /\ ioResult' \in {"cancelled", ErrCircuitOpen}
          /\ UNCHANGED readLog
       \/ /\ IF ioAttempt = MaxAttempts - 1
             THEN ioPc' = "done" /\ ioResult' = "exhausted"
             ELSE ioPc' = "sleep" /\ ioResult' = ioResult
          /\ UNCHANGED readLog
       \/ /\ ioPc' = "fn"
          /\ readLog' = Append(readLog, inputPos)
          /\ UNCHANGED ioResult
    /\ UNCHANGED <<ioAttempt, inputStart, inputPos, outputBuf>>
    /\ UNCHANGED streamRest

\* cmd.Wait returns: a worker that succeeds has read input to its end and
\* written its result; one that fails has read and written some part.
StreamFnReturn ==
    /\ ioPc = "fn"
    /\ \/ /\ inputPos' = InputLen
          /\ outputBuf' = outputBuf \o [i \in 1..OutLen |-> ioAttempt + 1]
          /\ ioPc' = "done"
          /\ ioResult' = "nil"
       \/ /\ inputPos' \in inputPos..InputLen
          /\ \E n \in 0..MaxPartial :
                outputBuf' = outputBuf \o [i \in 1..n |-> ioAttempt + 1]
          /\ IF ioAttempt = MaxAttempts - 1
             THEN ioPc' = "done" /\ ioResult' = "exhausted"
             ELSE ioPc' = "sleep" /\ ioResult' = ioResult
    /\ UNCHANGED <<ioAttempt, inputStart, readLog>>
    /\ UNCHANGED streamRest

\* The backoff select, then input.Seek(0, io.SeekStart).
StreamBackoffElapsed ==
    /\ ioPc = "sleep"
    /\ \/ /\ ioPc' = "done"
          /\ ioResult' \in {"cancelled", "seekErr"}
          /\ UNCHANGED <<ioAttempt, inputPos>>
       \/ /\ inputPos' = 0
          /\ ioAttempt' = ioAttempt + 1
          /\ ioPc' = "check"
          /\ UNCHANGED ioResult
    /\ UNCHANGED <<inputStart, readLog, outputBuf>>
    /\ UNCHANGED streamRest

NextStream == StreamAttempt \/ StreamFnReturn \/ StreamBackoffElapsed

SpecStream == InitStream /\ [][NextStream]_vars

(***************************************************************************)
(* SpecTickerLock: tickerLock of a ticker-mode Task, with the goroutine of *)
(* runTicker, one goroutine calling Write and one calling Stop, each step  *)
(* from locking to unlocking on its own.                                   *)
(***************************************************************************)
InitTickerLock ==
    /\ tickerLock = "free"
    /\ tkPc = "select"
    /\ wrPc = "idle"
    /\ stPc = "idle"
    /\ lkBuffer = 0
    /\ lkStop = FALSE
    /\ nLkWrites = 0
    /\ nLkTicks = 0
    /\ InitBreaker /\ RetryIdle /\ StreamIdle /\ PoolIdle
    /\ OneShotIdle /\ NewStreamConverter /\ New(TRUE)

lockRest ==
    <<cbVars, retryVars, poolVars, scVars, taskVars, ioVars,
      oneShotVars>>

\* Write in ticker mode, up to c.tickerLock.Lock()
LockWriteCall ==
    /\ wrPc = "idle"
    /\ nLkWrites < MaxLkWrites
    /\ nLkWrites' = nLkWrites + 1
    /\ wrPc' = "lock"
    /\ UNCHANGED <<tickerLock, tkPc, stPc, lkBuffer, lkStop, nLkTicks>>
    /\ UNCHANGED lockRest

\* Write: Lock returns, the data is appended, the deferred Unlock runs.
LockWriteAppend ==
    /\ wrPc = "lock"
    /\ tickerLock = "free"
    /\ lkBuffer' = lkBuffer + 1
    /\ wrPc' = "idle"
    /\ UNCHANGED <<tickerLock, tkPc, stPc, lkStop, nLkWrites, nLkTicks>>
    /\ UNCHANGED lockRest

\* The goroutine of runTicker: case <-c.ticker.C
LockLoopTick ==
    /\ tkPc = "select"
    /\ ~lkStop
    /\ nLkTicks < MaxLkTicks
    /\ nLkTicks' = nLkTicks + 1
    /\ tkPc' = "lock"
    /\ UNCHANGED <<tickerLock, wrPc, stPc, lkBuffer, lkStop, nLkWrites>>
    /\ UNCHANGED lockRest

\* The goroutine: Lock returns; a non-empty buffer starts flushTickerBuffer,
\* an empty one is unlocked at once.
LockLoopAcquire ==
    /\ tkPc = "lock"
    /\ tickerLock = "free"
    /\ IF lkBuffer > 0
       THEN tickerLock' = "loop" /\ tkPc' = "convert"
       ELSE tickerLock' = "free" /\ tkPc' = "select"
    /\ UNCHANGED <<wrPc, stPc, lkBuffer, lkStop, nLkWrites, nLkTicks>>
    /\ UNCHANGED lockRest

\* The goroutine: convertInternal returns to flushTickerBuffer, then
\* c.tickerLock.Unlock()
LockLoopConverted ==
    /\ tkPc = "convert"
    /\ tickerLock' = "free"
    /\ tkPc' = "select"
    /\ UNCHANGED <<wrPc, stPc, lkBuffer, lkStop, nLkWrites, nLkTicks>>
    /\ UNCHANGED lockRest

\* The goroutine: case <-c.tickerStop
LockLoopExit ==
    /\ tkPc = "select"
    /\ lkStop
    /\ tkPc' = "exited"
    /\ UNCHANGED <<tickerLock, wrPc, stPc, lkBuffer, lkStop, nLkWrites,
                   nLkTicks>>
    /\ UNCHANGED lockRest

\* stopTicker, up to c.tickerLock.Lock()
LockStopCall ==
    /\ stPc = "idle"
    /\ lkStop' = TRUE
    /\ stPc' = "lock"
    /\ UNCHANGED <<tickerLock, tkPc, wrPc, lkBuffer, nLkWrites, nLkTicks>>
    /\ UNCHANGED lockRest

\* stopTicker: Lock returns; flushTickerBuffer returns at once on an empty
\* buffer and the deferred Unlock runs.
LockStopAcquire ==
    /\ stPc = "lock"
    /\ tickerLock = "free"
    /\ IF lkBuffer > 0
       THEN tickerLock' = "stop" /\ stPc' = "convert"
       ELSE tickerLock' = "free" /\ stPc' = "done"
    /\ UNCHANGED <<tkPc, wrPc, lkBuffer, lkStop, nLkWrites, nLkTicks>>
    /\ UNCHANGED lockRest

\* stopTicker: convertInternal returns, the deferred Unlock runs.
LockStopConverted ==
    /\ stPc = "convert"
    /\ tickerLock' = "free"
    /\ stPc' = "done"
    /\ UNCHANGED <<tkPc, wrPc, lkBuffer, lkStop, nLkWrites, nLkTicks>>
    /\ UNCHANGED lockRest

NextTickerLock ==
    \/ LockWriteCall
    \/ LockWriteAppend
    \/ LockLoopTick
    \/ LockLoopAcquire
    \/ LockLoopConverted
    \/ LockLoopExit
    \/ LockStopCall
    \/ LockStopAcquire
    \/ LockStopConverted

SpecTickerLock == InitTickerLock /\ [][NextTickerLock]_vars

(***************************************************************************)
(* SpecOneShot: the StreamConverter of stream.go with a pool, an output    *)
(* path and one-shot auto-flush.  Flush and Close take no lock except in   *)
(* releasePool, so the goroutine of autoFlushLoop ("loop") and the         *)
(* caller's goroutine ("caller") interleave statement by statement.        *)
(***************************************************************************)
InitOneShot ==
    /\ afPc = [g \in {"loop", "caller"} |-> "idle"]
    /\ afOp = "none"
    /\ afRet = [g \in {"loop", "caller"} |-> "none"]
    /\ afStarted = FALSE
    /\ afClosed = FALSE
    /\ afChan = "nil"
    /\ afChanClosed = FALSE
    /\ afStdin = "nil"
    /\ afReadDone = 0
    /\ afDrain = "none"
    /\ afProc = "none"
    /\ afAcquired = FALSE
    /\ afTick = FALSE
    /\ afPanic = "none"
    /\ afCount = [acquires |-> 0, releases |-> 0, chanCloses |-> 0,
                  stdinCloses |-> 0, fileWrites |-> 0]
    /\ nAfOps = 0
    /\ InitBreaker /\ RetryIdle /\ StreamIdle
    /\ PoolIdle /\ LockIdle /\ NewStreamConverter
    /\ New(FALSE)

oneShotRest ==
    <<cbVars, retryVars, poolVars, scVars, taskVars, ioVars, lockVars>>

\* releasePool, applied to the counters cnt
afReleasePool(cnt) ==
    /\ afAcquired' = FALSE
    /\ afCount' = IF afAcquired
                  THEN [cnt EXCEPT !.releases = @ + 1]
                  ELSE cnt

afReturn(g, ret) ==
    /\ afPc' = [afPc EXCEPT ![g] = IF g = "loop" THEN "exited" ELSE "idle"]
    /\ afRet' = [afRet EXCEPT ![g] = ret]

\* Start: the slot is acquired; a failure releases it; success starts the
\* worker, readOutput and autoFlushLoop.
AfStart ==
    /\ afPanic = "none"
    /\ afPc["caller"] = "idle"
    /\ nAfOps < MaxAfOps
    /\ nAfOps' = nAfOps + 1
    /\ afOp' = "Start"
    /\ IF afStarted
       THEN /\ afRet' = [afRet EXCEPT !["caller"] = "err"]
            /\ UNCHANGED <<afPc, afStarted, afChan, afChanClosed, afStdin,
                           afDrain, afProc, afAcquired, afCount>>
       ELSE \/ /\ afRet' = [afRet EXCEPT !["caller"] = "err"]
               /\ afAcquired' = FALSE
               /\ afCount' = [afCount EXCEPT !.acquires = @ + 1,
                                             !.releases = @ + 1]
               /\ UNCHANGED <<afPc, afStarted, afChan, afChanClosed,
                              afStdin, afDrain, afProc>>
            \/ /\ afRet' = [afRet EXCEPT !["caller"] = "nil"]
               /\ afAcquired' = TRUE
               /\ afCount' = [afCount EXCEPT !.acquires = @ + 1]
               /\ afStdin' = "open"
               /\ afProc' = "running"
               /\ afDrain' = "reading"
               /\ afChan' = "set"
               /\ afChanClosed' = FALSE
               /\ afPc' = [afPc EXCEPT !["loop"] = "select"]
               /\ afStarted' = TRUE
    /\ UNCHANGED <<afClosed, afReadDone, afTick, afPanic>>
    /\ UNCHANGED oneShotRest

\* The ticker of the auto-flush fires.
AfTickerFires ==
    /\ afPanic = "none"
    /\ afStarted
    /\ ~afTick
    /\ afPc["loop"] = "select"
    /\ afTick' = TRUE
    /\ UNCHANGED <<afPc, afOp, afRet, afStarted, afClosed, afChan,
                   afChanClosed, afStdin, afReadDone, afDrain, afProc,
                   afAcquired, afPanic, afCount, nAfOps>>
    /\ UNCHANGED oneShotRest

\* The entry of Flush in goroutine g: the started and closed tests.
afFlushEnter(g) ==
    IF ~afStarted \/ afClosed
    THEN afReturn(g, "err")
    ELSE afPc' = [afPc EXCEPT ![g] = "stop"] /\ UNCHANGED afRet

\* autoFlushLoop: case <-s.flushTicker.C, up to the tests of Flush
AfLoopTick ==
    /\ afPanic = "none"
    /\ afPc["loop"] = "select"
    /\ afTick
    /\ afFlushEnter("loop")
    /\ UNCHANGED <<afOp, afStarted, afClosed, afChan, afChanClosed, afStdin,
                   afReadDone, afDrain, afProc, afAcquired, afTick, afPanic,
                   afCount, nAfOps>>
    /\ UNCHANGED oneShotRest

\* autoFlushLoop: case <-s.flushStopChan
AfLoopStop ==
    /\ afPanic = "none"
    /\ afPc["loop"] = "select"
    /\ afChanClosed
    /\ afPc' = [afPc EXCEPT !["loop"] = "exited"]
    /\ UNCHANGED <<afOp, afRet, afStarted, afClosed, afChan, afChanClosed,
                   afStdin, afReadDone, afDrain, afProc, afAcquired, afTick,
                   afPanic, afCount, nAfOps>>
    /\ UNCHANGED oneShotRest

\* The caller calls Flush or Close, up to their started and closed tests.
AfCall ==
    /\ afPanic = "none"
    /\ afPc["caller"] = "idle"
    /\ nAfOps < MaxAfOps
    /\ nAfOps' = nAfOps + 1
    /\ \E op \in {"Flush", "Close"} :
          /\ afOp' = op
          /\ IF op = "Flush"
             THEN afFlushEnter("caller")
             ELSE IF ~afStarted \/ afClosed
                  THEN afReturn("caller", "nil")
                  ELSE /\ afPc' = [afPc EXCEPT !["caller"] = "stop"]
                       /\ UNCHANGED afRet
    /\ UNCHANGED <<afStarted, afClosed, afChan, afChanClosed, afStdin,
                   afReadDone, afDrain, afProc, afAcquired, afTick, afPanic,
                   afCount>>
    /\ UNCHANGED oneShotRest

\* stopAutoFlush: the test s.flushStopChan != nil
AfStopTest(g) ==
    /\ afPanic = "none"
    /\ afPc[g] = "stop"
    /\ afPc' = [afPc EXCEPT ![g] = IF afChan = "set" THEN "close" ELSE "stdin"]
    /\ UNCHANGED <<afOp, afRet, afStarted, afClosed, afChan, afChanClosed,
                   afStdin, afReadDone, afDrain, afProc, afAcquired, afTick,
                   afPanic, afCount, nAfOps>>
    /\ UNCHANGED oneShotRest

\* stopAutoFlush: close(s.flushStopChan); s.flushStopChan = nil.  Closing a
\* nil or a closed channel panics.
AfStopClose(g) ==
    /\ afPanic = "none"
    /\ afPc[g] = "close"
    /\ IF afChan = "nil" \/ afChanClosed
       THEN /\ afPanic' = "close of closed channel"
            /\ afCount' = [afCount EXCEPT !.chanCloses = @ + 1]
            /\ UNCHANGED <<afPc, afChan, afChanClosed>>
       ELSE /\ afChanClosed' = TRUE
            /\ afChan' = "nil"
            /\ afCount' = [afCount EXCEPT !.chanCloses = @ + 1]
            /\ afPc' = [afPc EXCEPT ![g] = "stdin"]
            /\ UNCHANGED afPanic
    /\ UNCHANGED <<afOp, afRet, afStarted, afClosed, afStdin, afReadDone,
                   afDrain, afProc, afAcquired, afTick, nAfOps>>
    /\ UNCHANGED oneShotRest

\* Flush: s.stdin.Close(); closing the pipe a second time is an error.
AfFlushCloseStdin(g) ==
    /\ afPanic = "none"
    /\ afPc[g] = "stdin"
    /\ g = "loop" \/ afOp = "Flush"
    /\ IF afStdin = "closed"
       THEN /\ afReleasePool([afCount EXCEPT !.stdinCloses = @ + 1])
            /\ afReturn(g, "err")
            /\ UNCHANGED afStdin
       ELSE /\ afStdin' = "closed"
            /\ afCount' = [afCount EXCEPT !.stdinCloses = @ + 1]
            /\ afPc' = [afPc EXCEPT ![g] = "read"]
            /\ UNCHANGED <<afRet, afAcquired>>
    /\ UNCHANGED <<afOp, afStarted, afClosed, afChan, afChanClosed,
                   afReadDone, afDrain, afProc, afTick, afPanic, nAfOps>>
    /\ UNCHANGED oneShotRest

\* The worker exits once its input is closed, or is killed; readOutput:
\* stdout.Read returns an error, s.readDone <- err
AfReadOutputEOF ==
    /\ afPanic = "none"
    /\ afDrain = "reading"
    /\ afStdin = "closed"
    /\ afProc' \in IF afProc = "running" THEN {"exited", "failed"} ELSE {afProc}
    /\ afDrain' = "exited"
    /\ afReadDone' = afReadDone + 1
    /\ UNCHANGED <<afPc, afOp, afRet, afStarted, afClosed, afChan,
                   afChanClosed, afStdin, afAcquired, afTick, afPanic,
                   afCount, nAfOps>>
    /\ UNCHANGED oneShotRest

\* Flush: readErr := <-s.readDone
AfFlushRead(g) ==
    /\ afPanic = "none"
    /\ afPc[g] = "read"
    /\ afReadDone > 0
    /\ afReadDone' = afReadDone - 1
    /\ afPc' = [afPc EXCEPT ![g] = "wait"]
    /\ UNCHANGED <<afOp, afRet, afStarted, afClosed, afChan, afChanClosed,
                   afStdin, afDrain, afProc, afAcquired, afTick, afPanic,
                   afCount, nAfOps>>
    /\ UNCHANGED oneShotRest

\* Flush: cmd.Wait, then closed, releasePool and os.WriteFile
AfFlushWait(g) ==
    /\ afPanic = "none"
    /\ afPc[g] = "wait"
    /\ IF afProc = "exited"
       THEN /\ afClosed' = TRUE
            /\ afReleasePool([afCount EXCEPT !.fileWrites = @ + 1])
            /\ afReturn(g, "nil")
       ELSE /\ afReleasePool(afCount)
            /\ afReturn(g, "err")
            /\ UNCHANGED afClosed
    /\ UNCHANGED <<afOp, afStarted, afChan, afChanClosed, afStdin,
                   afReadDone, afDrain, afProc, afTick, afPanic, nAfOps>>
    /\ UNCHANGED oneShotRest

\* Close after stopAutoFlush: stdin.Close with its error dropped, Kill,
\* closed, releasePool.
AfCloseKill ==
    /\ afPanic = "none"
    /\ afPc["caller"] = "stdin"
    /\ afOp = "Close"
    /\ afStdin' = "closed"
    /\ afProc' = IF afProc = "running" THEN "killed" ELSE afProc
    /\ afClosed' = TRUE
    /\ afReleasePool([afCount EXCEPT !.stdinCloses = @ + 1])
    /\ afReturn("caller", "nil")
    /\ UNCHANGED <<afOp, afStarted, afChan, afChanClosed, afReadDone,
                   afDrain, afTick, afPanic, nAfOps>>
    /\ UNCHANGED oneShotRest

NextOneShot ==
    \/ AfStart
    \/ AfTickerFires
    \/ AfLoopTick
    \/ AfLoopStop
    \/ AfCall
    \/ \E g \in {"loop", "caller"} : AfStopTest(g)
    \/ \E g \in {"loop", "caller"} : AfStopClose(g)
    \/ \E g \in {"loop", "caller"} : AfFlushCloseStdin(g)
    \/ AfReadOutputEOF
    \/ \E g \in {"loop", "caller"} : AfFlushRead(g)
    \/ \E g \in {"loop", "caller"} : AfFlushWait(g)
    \/ AfCloseKill

SpecOneShot == InitOneShot /\ [][NextOneShot]_vars

(***************************************************************************)
(* SpecCBAll: HalfOpenRequests + 1 goroutines call the breaker, with room  *)
(* for one more Call than in SpecCB.                                       *)
(***************************************************************************)
CallBudgetAll == MaxCalls + 1

CallBeginAll ==
    /\ nCalls < CallBudgetAll
    /\ \E c \in AllCallers : CallBegin(c)
    /\ UNCHANGED <<retryVars, cbRetryRest>>
CallEndAll == (\E c \in AllCallers : CallEnd(c)) /\ UNCHANGED <<retryVars, cbRetryRest>>

NextCBAll ==
    \/ CallBeginAll
    \/ CallEndAll
    \/ ClockTick

SpecCBAll == InitCB /\ [][NextCBAll]_vars

(***************************************************************************)
(* SpecBackoff: the retry loop alone, for every InitialBackoff a           *)
(* RetryConfig passed to WithRetryConfig may carry, up to one above        *)
(* MaxBackoff.                                                             *)
(***************************************************************************)
InitialBackoffs == 1..(MaxBackoff + 1)

InitBackoff ==
    /\ InitBreaker
    /\ rPc = "check"
    /\ attempt = 0
    /\ backoff \in InitialBackoffs
    /\ rResult = "none"
    /\ rWrapped = NoWrap
    /\ lastErr = "none"
    /\ ctxDone = FALSE
    /\ useBreaker \in BOOLEAN
    /\ formatValid = TRUE
    /\ attemptLog = <<>>
    /\ sleeps = <<>>
    /\ rInvoked = 0
    /\ StreamIdle
    /\ PoolIdle /\ OneShotIdle /\ LockIdle
    /\ NewStreamConverter
    /\ New(FALSE)

NextBackoff ==
    \/ RetryAttempt
    \/ RetryFnReturn
    \/ RetryBackoffElapsed
    \/ RetryBackoffCancelled
    \/ Cancel
    \/ ClockTick

SpecBackoff == InitBackoff /\ [][NextBackoff]_vars

(***************************************************************************)
(* SpecPool: goroutines acquiring and releasing slots of one pool.         *)
(***************************************************************************)
InitPool ==
    /\ StreamIdle /\ PoolIdle /\ OneShotIdle /\ LockIdle
    /\ InitBreaker /\ RetryIdle /\ NewStreamConverter /\ New(FALSE)

PoolAcquireCall == (\E u \in PoolUsers : AcquireCall(u)) /\ UNCHANGED poolRest
PoolAcquireSlot == (\E u \in PoolUsers : AcquireSlot(u)) /\ UNCHANGED poolRest
PoolAcquireCount == (\E u \in PoolUsers : AcquireCount(u)) /\ UNCHANGED poolRest
PoolAcquireCancelled == (\E u \in PoolUsers : AcquireCancelled(u)) /\ UNCHANGED poolRest
PoolCtxCancelled == (\E u \in PoolUsers : PoolCtxCancel(u)) /\ UNCHANGED poolRest
PoolReleaseCount == (\E u \in PoolUsers : ReleaseCount(u)) /\ UNCHANGED poolRest
PoolReleaseSlot == (\E u \in PoolUsers : ReleaseSlot(u)) /\ UNCHANGED poolRest

NextPool ==
    \/ PoolAcquireCall
    \/ PoolAcquireSlot
    \/ PoolAcquireCount
    \/ PoolAcquireCancelled
    \/ PoolCtxCancelled
    \/ PoolReleaseCount
    \/ PoolReleaseSlot

SpecPool == InitPool /\ [][NextPool]_vars

\* SpecPoolFair: a goroutine that can finish its Acquire or its Release does.
SpecPoolFair ==
    /\ SpecPool
    /\ WF_vars(PoolAcquireSlot)
    /\ WF_vars(PoolAcquireCount)
    /\ WF_vars(PoolReleaseSlot)

(***************************************************************************)
(* SpecSC: one StreamConverter with incremental flush.                     *)
(***************************************************************************)
InitSC ==
    /\ NewStreamConverter /\ InitBreaker /\ RetryIdle /\ StreamIdle
    /\ PoolIdle /\ OneShotIdle /\ LockIdle /\ New(FALSE)

NextSC ==
    \/ SCStart
    \/ SCWrite
    \/ ReadOutputData
    \/ ReadOutputEOF
    \/ TickerFires
    \/ LoopTick
    \/ LoopWrite
    \/ LoopStop
    \/ FlushCall
    \/ CloseCall
    \/ CallerLoopDone
    \/ CallerSnapshot
    \/ CallerWrite
    \/ CallerCloseStdin
    \/ CallerReadDone
    \/ FlushFinish
    \/ FlushFinal
    \/ CloseFinish
    \/ CloseFinal
    \/ CloseRelease

SpecSC == InitSC /\ [][NextSC]_vars

\* SpecSCFair: the goroutines of the StreamConverter and the caller inside
\* Flush or Close keep taking their steps.  Nothing is assumed of the worker
\* (ReadOutputData, ReadOutputEOF), of the ticker or of the caller's next call.
SpecSCFair ==
    /\ SpecSC
    /\ WF_vars(LoopTick)
    /\ WF_vars(LoopWrite)
    /\ WF_vars(LoopStop)
    /\ WF_vars(CallerLoopDone)
    /\ WF_vars(CallerSnapshot)
    /\ WF_vars(CallerWrite)
    /\ WF_vars(CallerCloseStdin)
    /\ WF_vars(CallerReadDone)
    /\ WF_vars(FlushFinish)
    /\ WF_vars(FlushFinal)
    /\ WF_vars(CloseFinish)
    /\ WF_vars(CloseFinal)
    /\ WF_vars(CloseRelease)

\* SpecSCWorker: SpecSCFair with a worker that exits, and so ends the drain
\* goroutine's read, once its input is closed.
SpecSCWorker == SpecSCFair /\ WF_vars(ReadOutputEOF)

\* SpecSCRead: the caller also calls Read.
NextSCRead == NextSC \/ SCRead

SpecSCRead == InitSC /\ [][NextSCRead]_vars

(***************************************************************************)
(* SpecTask: one Task in stream mode or in ticker mode.                    *)
(***************************************************************************)
InitTask ==
    /\ \E tm \in BOOLEAN : New(tm)
    /\ InitBreaker /\ RetryIdle /\ StreamIdle /\ PoolIdle
    /\ OneShotIdle /\ LockIdle /\ NewStreamConverter

NextTask ==
    \/ TaskStart
    \/ TaskWrite
    \/ TaskStopCall
    \/ StopWait
    \/ StopDrain
    \/ ProcExit
    \/ DrainData
    \/ DrainEOF
    \/ TaskTickerFires
    \/ TickerLoopTick
    \/ TickerLoopExit

SpecTask == InitTask /\ [][NextTask]_vars

(***************************************************************************)
(* SpecTicker: ticker mode, of the Task or of the Converter.               *)
(***************************************************************************)
InitTicker ==
    /\ New(TRUE) \/ NewTicker
    /\ InitBreaker /\ RetryIdle /\ StreamIdle /\ PoolIdle
    /\ OneShotIdle /\ LockIdle /\ NewStreamConverter

NextTicker ==
    \/ TaskStart
    \/ TaskWrite
    \/ TaskStopCall
    \/ TaskTickerFires
    \/ TickerLoopTick
    \/ TickerLoopExit

SpecTicker == InitTicker /\ [][NextTicker]_vars

(***************************************************************************)
(* Claims about the circuit breaker.                                       *)
(***************************************************************************)
\* A step in which a Call whose wrapped function failed returns.
CallFails == streak' = streak + 1
\* A step in which a Call begins (runs beforeRequest).
CallBegins == nCalls' = nCalls + 1

\* C1: the failing Call that makes the run of consecutive failures reach
\* maxFailures leaves the breaker Open, and a Call begun while the breaker is
\* Open and resetTimeout has not elapsed since the last failure returns
\* ErrCircuitOpen without invoking the wrapped function.
C1_ThresholdOpens ==
    [][ /\ (CallFails /\ streak' >= MaxFailures => cb'.state = StateOpen)
        /\ (CallBegins /\ cb.state = StateOpen /\ ~resetElapsed(cb, now)
              => /\ callErr'[lastBegin'] = ErrCircuitOpen
                 /\ callPc'[lastBegin'] = "idle"
                 /\ fnInvoked' = fnInvoked) ]_vars

C1_Witness ==
    /\ cb.state = StateOpen
    /\ streak >= MaxFailures
    /\ ~resetElapsed(cb, now)
    /\ lastBegin \in Callers
    /\ callErr[lastBegin] = ErrCircuitOpen
    /\ fnInvoked = MaxFailures

\* C2: whenever the wrapped function of a Call fails while the breaker is
\* HalfOpen, the breaker is Open when that Call returns.
C2_HalfOpenFailureReopens ==
    [][ CallFails /\ cb.state = StateHalfOpen => cb'.state = StateOpen ]_vars

\* C10: a Call begun while the breaker is Open and resetTimeout has elapsed
\* since the last failure moves it to HalfOpen; while every Call that has
\* returned since then succeeded, the breaker is HalfOpen with fewer than
\* halfOpenRequests successes and Closed once there are halfOpenRequests.
C10_Recovery ==
    [][ /\ (CallBegins /\ cb.state = StateOpen /\ resetElapsed(cb, now)
              => cb'.state = StateHalfOpen)
        /\ (episode'.clean
              => IF episode'.succ >= HalfOpenRequests
                 THEN cb'.state = StateClosed
                 ELSE cb'.state = StateHalfOpen) ]_vars

C10_Witness ==
    /\ episode.clean
    /\ episode.succ = HalfOpenRequests
    /\ cb.state = StateClosed

(***************************************************************************)
(* Claims about the retry loop, checked under SpecRetry.                   *)
(***************************************************************************)
\* k retryable failures followed by a success.
FailsThenSucceeds(k) == [i \in 1..(k + 1) |-> IF i <= k THEN "err" ELSE "nil"]

\* The attempts of a log in which convertInternal was invoked.
InvokedIn(log) ==
    Cardinality({i \in 1..Len(log) : log[i] \notin {ErrCircuitOpen, ErrTooManyRequests}})

\* C4: when the first k attempts (k < MaxAttempts) failed with a retryable
\* error and attempt k+1 succeeded, executeWithRetryStream has returned nil
\* and convertInternal was invoked exactly k+1 times.
C4_RetryThenSuccess ==
    \A k \in 0..(MaxAttempts - 1) :
        attemptLog = FailsThenSucceeds(k)
            => rPc = "done" /\ rResult = "nil" /\ rInvoked = k + 1

C4_Witness ==
    /\ attemptLog = FailsThenSucceeds(MaxAttempts - 1)
    /\ rResult = "nil"
    /\ Len(sleeps) = MaxAttempts - 1

\* C5: an attempt that returned ErrCircuitOpen or ErrInvalidFormat is the
\* last one: executeWithRetryStream has returned that error, no backoff
\* sleep followed it and convertInternal was not invoked again.
C5_NoRetryOnFatal ==
    \A i \in 1..Len(attemptLog) :
        attemptLog[i] \in {ErrCircuitOpen, ErrInvalidFormat}
            => /\ i = Len(attemptLog)
               /\ rPc = "done"
               /\ rResult = attemptLog[i]
               /\ Len(sleeps) = i - 1
               /\ rInvoked = InvokedIn(attemptLog)

C5_Witness ==
    /\ rPc = "done"
    /\ Len(attemptLog) >= 2
    /\ rResult = ErrCircuitOpen

C5_WitnessFormat ==
    /\ rPc = "done"
    /\ rResult = ErrInvalidFormat
    /\ rInvoked = 1

(***************************************************************************)
(* Claims about the pool, checked under SpecPool.                          *)
(***************************************************************************)
\* The users whose Acquire has returned nil and who have not called Release.
Holders == {u \in PoolUsers : poolPc[u] = "holding"}

\* C6: 0 <= active <= maxWorkers, and at most maxWorkers callers hold a slot.
C6_PoolBounded ==
    /\ 0 <= active
    /\ active <= PoolMaxWorkers
    /\ Cardinality(Holders) <= PoolMaxWorkers

C6_Witness ==
    /\ active = PoolMaxWorkers
    /\ Cardinality(Holders) = PoolMaxWorkers
    /\ \E u \in PoolUsers : poolPc[u] = "select"

(***************************************************************************)
(* Claims about the StreamConverter, checked under SpecSC.                 *)
(***************************************************************************)
\* C3: the bytes handed to the output file, in order, are the accumulated
\* output exactly once: never a byte twice or out of place, and none missing
\* once the stream is closed and the call that closed it has returned.
C3_ExactlyOnce ==
    /\ \A i \in 1..Len(sink) : sink[i] = i
    /\ closed /\ scPc = "idle" => Len(sink) = buffer

(***************************************************************************)
(* Claims about the Task lifecycle, checked under SpecTask.                *)
(***************************************************************************)
StopIsCalled == nStops' = nStops + 1
WriteIsCalled == nOps' = nOps + 1 /\ taskOp' = "Write"
StartIsCalled == nOps' = nOps + 1 /\ taskOp' = "Start"

\* C7: in stream mode, once a Stop of the started stream has returned nil,
\* every later Stop returns nil at once, leaves the worker alone (no close of
\* its input, no wait, no output taken) and changes none of the buffers.
C7_StopIdempotent ==
    [][ ~tickerMode /\ stopSucceeded /\ StopIsCalled =>
            /\ taskRet' = "nil"
            /\ taskPc' = "idle"
            /\ UNCHANGED <<streamStdin, stdinCloses, streamCmd, waits, procPc,
                           copyPc, streamOutputDone, streamOutput,
                           streamBuffer, stdinBytes, nWorkers, nDrains>> ]_vars

C7_Witness ==
    /\ ~tickerMode
    /\ stopSucceeded
    /\ nStops >= 2
    /\ taskOp = "Stop"
    /\ taskRet = "nil"
    /\ stdinCloses = 1
    /\ waits = 1

\* C8: a Write outside Started returns an error and changes neither the
\* accumulation buffer nor the worker's input, in both modes.
C8_WriteOnlyWhileStarted ==
    [][ WriteIsCalled /\ lifecycle # "Started" =>
            /\ taskRet' = "err"
            /\ UNCHANGED <<tickerBuffer, streamBuffer, stdinBytes>> ]_vars

\* C9: a Start on a Started or Stopped Task returns an error and creates no
\* worker, ticker, ticker loop or copying goroutine, in both modes.
C9_StartOnlyFromIdle ==
    [][ StartIsCalled /\ lifecycle \in {"Started", "Stopped"} =>
            /\ taskRet' = "err"
            /\ UNCHANGED <<nWorkers, nTickers, nLoops, nDrains>> ]_vars

(***************************************************************************)
(* Claims about refused calls, checked under SpecRetry, where the retry    *)
(* loop and HalfOpenRequests other conversions call the same breaker.      *)
(***************************************************************************)
CallRefused == CallBegins /\ callErr'[lastBegin'] \in {ErrCircuitOpen, ErrTooManyRequests}

\* C11: a Call refused with ErrCircuitOpen or ErrTooManyRequests does not
\* invoke the function and leaves failures and lastFailTime as they were.
C11_RefusalHasNoEffect ==
    [][ CallRefused =>
            /\ fnInvoked' = fnInvoked
            /\ callPc'[lastBegin'] = "idle"
            /\ cb'.failures = cb.failures
            /\ cb'.lastFailTime = cb.lastFailTime ]_vars

C11_Witness ==
    /\ lastBegin = Exec
    /\ callErr[Exec] = ErrTooManyRequests
    /\ cb.state = StateHalfOpen
    /\ cb.requestsInFly = HalfOpenRequests
    /\ rInvoked = 0

(***************************************************************************)
(* Claims about the half-open probes, checked under SpecCBAll.             *)
(***************************************************************************)
\* The calls admitted while HalfOpen whose function is running.
ProbesRunning ==
    Cardinality({c \in AllCallers :
                    callPc[c] = "fn" /\ admitted[c] = StateHalfOpen})

\* C12: while HalfOpen at most HalfOpenRequests admitted probes run their
\* function at once, and a Call arriving at that limit gets ErrTooManyRequests.
C12_ProbesBounded ==
    [][ /\ (cb'.state = StateHalfOpen => ProbesRunning' <= HalfOpenRequests)
        /\ (CallBegins /\ beforeRequest(cb, now).cb.state = StateHalfOpen
                       /\ ProbesRunning >= HalfOpenRequests
              => callErr'[lastBegin'] = ErrTooManyRequests) ]_vars

(***************************************************************************)
(* Claims about the breaker's fields, checked under SpecCB.                *)
(***************************************************************************)
\* C13: whenever failures >= maxFailures and no more than resetTimeout has
\* passed since lastFailTime, the state is Open.
C13_OpenWhileTripped ==
    cb.failures >= MaxFailures /\ now - cb.lastFailTime <= ResetTimeout
        => cb.state = StateOpen

C13_Witness ==
    /\ cb.state = StateOpen
    /\ cb.failures > MaxFailures
    /\ now - cb.lastFailTime = ResetTimeout
    /\ \E c \in Callers : callErr[c] = ErrCircuitOpen

(***************************************************************************)
(* Claims about cancellation and exhaustion, checked under SpecRetry.      *)
(***************************************************************************)
CancelErrors == {"conversion cancelled", "conversion cancelled during backoff"}

AllAttemptsFailed ==
    /\ Len(attemptLog) = MaxAttempts
    /\ \A i \in 1..MaxAttempts : attemptLog[i] = "err"

C15_Exhausted ==
    /\ rResult = "failed after attempts" =>
          /\ rPc = "done"
          /\ Len(attemptLog) = MaxAttempts
          /\ Len(sleeps) = MaxAttempts - 1
          /\ rWrapped = [n |-> MaxAttempts, cause |-> attemptLog[MaxAttempts]]
    /\ AllAttemptsFailed =>
          /\ rResult = "failed after attempts"
          /\ rInvoked = MaxAttempts

C15_Witness ==
    /\ AllAttemptsFailed
    /\ rPc = "done"
    /\ rInvoked = MaxAttempts
    /\ Len(sleeps) = MaxAttempts - 1
    /\ rWrapped.cause = "err"

\* C16: an attempt the breaker refuses with ErrTooManyRequests is the last
\* one: the loop returns that error and neither sleeps nor tries again.
C16_NoRetryOnTooManyRequests ==
    \A i \in 1..Len(attemptLog) :
        attemptLog[i] = ErrTooManyRequests =>
            /\ i = Len(attemptLog)
            /\ rPc = "done"
            /\ rResult = ErrTooManyRequests

(***************************************************************************)
(* Claims about the backoff, checked under SpecBackoff.                    *)
(***************************************************************************)
\* C17: with BackoffMultiple > 1 no sleep is shorter than the one before it
\* and no sleep, the first included, is longer than MaxBackoff.
C17_BackoffMonotoneCapped ==
    \A i \in 1..Len(sleeps) :
        /\ sleeps[i] <= MaxBackoff
        /\ i > 1 => sleeps[i] >= sleeps[i - 1]

(***************************************************************************)
(* Claims about blocked Acquires, checked under SpecPoolFair.              *)
(***************************************************************************)
\* The users whose Acquire is blocked in its select.
Blocked == {u \in PoolUsers : poolPc[u] = "select"}

\* C18: an Acquire takes a slot only when the pool is not full; one that
\* returns on ctx.Done() returns an error and leaves the semaphore and active
\* as they were; and when a holder releases with Acquires blocked, one of
\* them gets the slot unless all of them are cancelled first.
C18_BlockedAcquire ==
    /\ [][ \A u \in PoolUsers :
             /\ (poolPc[u] = "select" /\ poolPc'[u] = "got"
                   => semaphore < PoolMaxWorkers)
             /\ (poolPc[u] = "select" /\ poolPc'[u] = "idle"
                   => /\ poolCtx[u]
                      /\ poolErr'[u] = "pool acquire cancelled"
                      /\ UNCHANGED <<semaphore, active>>) ]_vars
    /\ ((Blocked # {} /\ \E u \in PoolUsers : poolPc[u] = "releasing")
          ~> (Blocked = {} \/ \E u \in PoolUsers : poolPc[u] = "got"))

C18_Witness ==
    /\ semaphore = PoolMaxWorkers
    /\ active = PoolMaxWorkers
    /\ \E u \in PoolUsers :
          /\ poolPc[u] = "idle"
          /\ poolErr[u] = "pool acquire cancelled"

(***************************************************************************)
(* Claims about the checkpoint, checked under SpecSCRead.                  *)
(***************************************************************************)
\* C19: 0 <= lastFlushPosition <= buffer.Len() after every operation.
C19_CheckpointInBuffer ==
    /\ 0 <= lastFlushPosition
    /\ lastFlushPosition <= buffer


(***************************************************************************)
(* Claims about ticker mode, checked under SpecTicker.                     *)
(***************************************************************************)
\* The bytes written so far, by position.
Written == 1..(tickerDropped + tickerBuffer)

\* The bytes one flush handed to the worker.
Handed(e) == (e.from + 1)..(e.from + e.len)

\* The bytes some flush handed to the worker in a conversion that succeeded.
Flushed ==
    UNION {Handed(flushLog[i]) : i \in {j \in DOMAIN flushLog :
                                         flushLog[j].err = "nil"}}

Unflushed == Written \ Flushed

\* C20: in ticker mode a Stop of the started job stops the ticker, hands
\* every written byte not yet flushed successfully to the worker in one
\* final flush, and leaves the job Stopped.
C20_StopFinalFlush ==
    [][ StopIsCalled /\ tickerMode /\ lifecycle = "Started" =>
          /\ ticker' = "stopped"
          /\ lifecycle' = "Stopped"
          /\ Len(flushLog') <= Len(flushLog) + 1
          /\ \/ Unflushed = {}
             \/ /\ Len(flushLog') = Len(flushLog) + 1
                /\ Unflushed \subseteq Handed(flushLog'[Len(flushLog')]) ]_vars


(***************************************************************************)
(* Claims about stream mode of the Task, checked under SpecTask.           *)
(***************************************************************************)
\* C21: in stream mode, whenever a Write returns nil the goroutine that
\* copies the worker's output has been started.
C21_DrainBeforeWrite ==
    [][ WriteIsCalled /\ ~tickerMode /\ taskRet' = "nil" =>
            copyPc # "none" /\ nDrains > 0 ]_vars


(***************************************************************************)
(* Claims about the end of a StreamConverter, checked under SpecSC.        *)
(***************************************************************************)
\* C22: when Flush or Close is about to perform its final write, the worker's
\* input has been closed, the goroutine reading its output has finished, and
\* the pool slot has not been released yet.
C22_StopOrder ==
    scPc = "final" =>
        /\ stdinClosed
        /\ drainPc = "exited"
        /\ acquired


TickFlushes ==
    /\ tTickPending
    /\ ~tTickPending'
    /\ Len(flushLog') = Len(flushLog) + 1

\* C24: a flush triggered by a tick hands the worker no byte that an earlier
\* flush has already converted successfully.
C24_TickFlushOnlyNew ==
    [][ TickFlushes =>
            Handed(flushLog'[Len(flushLog')]) \cap Flushed = {} ]_vars


\* The flush of this step failed.
FlushFails ==
    /\ Len(flushLog') = Len(flushLog) + 1
    /\ flushLog'[Len(flushLog')].err = "err"

\* C25: a tick whose flush fails leaves the ticker and its loops running and
\* the bytes in the buffer, and every flush hands the worker all the bytes
\* that no flush has converted successfully so far.
C25_FailedFlushKeepsBytes ==
    [][ /\ TickFlushes /\ FlushFails =>
              /\ UNCHANGED <<ticker, liveLoops, tickerStopClosed>>
              /\ UNCHANGED <<tickerBuffer, tickerDropped>>
        /\ Len(flushLog') = Len(flushLog) + 1 =>
              Unflushed \subseteq Handed(flushLog'[Len(flushLog')]) ]_vars


\* C26: a tick whose flush fails tells the caller: the step changes what the
\* caller can observe of the Task, which is the result of its calls.
C26_TickFailureReported ==
    [][ TickFlushes /\ FlushFails => taskRet' # taskRet ]_vars


\* C27: a ticker flush runs through the circuit breaker as a one-shot Convert
\* does: a conversion that fails is counted by the breaker.
C27_FlushThroughBreaker ==
    [][ FlushFails =>
            /\ cb'.failures = cb.failures + 1
            /\ cb'.lastFailTime = now ]_vars


\* The auto-flush loop finishes a writeAvailableData that reached the file.
AutoFlushWrites == loopPc = "write" /\ loopPc' # "write"

\* C28: an auto-flush write advances the checkpoint by exactly the number of
\* bytes the file accepted, whether or not Write or Sync reported an error.
C28_CheckpointFollowsSink ==
    [][ AutoFlushWrites =>
            lastFlushPosition' - lastFlushPosition
                = Len(sink') - Len(sink) ]_vars


\* The call before this one was a Stop that returned nil.
AfterSuccessfulStop == taskOp = "Stop" /\ taskRet = "nil" /\ taskPc = "idle"

\* C29: in ticker mode a Stop that follows a successful Stop returns nil,
\* does not panic and runs no flush.
C29_SecondStopNoop ==
    [][ tickerMode /\ AfterSuccessfulStop /\ StopIsCalled =>
            /\ taskRet' = "nil"
            /\ taskPc' = "idle"
            /\ flushLog' = flushLog ]_vars


(***************************************************************************)
(* Claims about termination of Close, checked under SpecSCFair.            *)
(***************************************************************************)
\* C30: a Close that has closed the worker's input while the worker still
\* holds its output open returns all the same.
C30_CloseReturns ==
    (scOp = "Close" /\ stdinClosed /\ drainPc = "reading") ~> (scPc = "idle")


(***************************************************************************)
(* Claims about the Converter's pool admission, checked under SpecConverter. *)
(***************************************************************************)
\* An attempt ends with the pool's admission error.
AdmissionFails == attemptLog' = Append(attemptLog, "failed to acquire worker slot")

\* C31: a pool admission failure ends the conversion at once: no backoff wait
\* is entered, no further attempt is made, and the breaker's failure count
\* stays as it was.
C31_AdmissionFailureNotCounted ==
    [][ AdmissionFails =>
            /\ rPc' = "done"
            /\ cb'.failures = cb.failures
            /\ cb'.state = cb.state ]_vars


\* C32: every attempt of a stream conversion starts to read the input at
\* the offset the input was at when the conversion was called, the first
\* attempt and every retry alike.
C32_RetryRereadsInput ==
    \A i \in 1..Len(readLog) : readLog[i] = inputStart


\* C38: when a stream conversion returns success, every byte the output has
\* received was produced by the attempt that succeeded: nothing a failed
\* attempt wrote stays in front of it.
C38_OutputOnlyFromSuccess ==
    ioResult = "nil" =>
        \A i \in 1..Len(outputBuf) : outputBuf[i] = ioAttempt + 1


\* C33: while a conversion runs on the buffered data, for a tick or for the
\* final flush of Stop, the lock that protects the buffer is free, so that
\* a Write waiting for it can go on.
C33_NoLockAcrossConversion ==
    tkPc = "convert" \/ stPc = "convert" => tickerLock = "free"


\* C34: with one-shot auto-flush the stream is finalised once, however the
\* caller's Flush or Close and the timer's Flush fall: the stop channel is
\* closed at most once and no close of it panics, the output file is
\* written at most once, and the pool slot is released at most once.
C34_FinalisedOnce ==
    /\ afPanic = "none"
    /\ afCount.chanCloses <= 1
    /\ afCount.fileWrites <= 1
    /\ afCount.releases <= afCount.acquires


\* C35: when the worker exits once its input is closed, a Flush or a Close
\* that has been called returns, whatever ticks and whatever failed Flush
\* came before it.
C35_FlushCloseReturn ==
    (scOp \in {"Flush", "Close"} /\ scPc # "idle") ~> (scPc = "idle")


(***************************************************************************)
(* Claims about a Start that failed, checked under SpecTask.               *)
(***************************************************************************)
AfterFailedStart ==
    /\ ~tickerMode
    /\ lifecycle = "Idle"
    /\ taskPc = "idle"
    /\ taskOp = "Start"
    /\ taskRet = "err"

\* C36: after a stream-mode Start that returned an error the Task is not
\* started: the next Write is rejected and writes nothing, the next Stop
\* returns nil at once and leaves the worker's input alone, and the next
\* Start is attempted, not refused as already started.
C36_FailedStartNotStarted ==
    [][ AfterFailedStart =>
            /\ WriteIsCalled =>
                  /\ taskRet' = "err"
                  /\ UNCHANGED <<streamBuffer, stdinBytes>>
            /\ StopIsCalled =>
                  /\ taskRet' = "nil"
                  /\ taskPc' = "idle"
                  /\ UNCHANGED <<streamStdin, stdinCloses>>
            /\ StartIsCalled => ~streamStarted ]_vars


\* C37: in ticker mode, once Stop has returned and until the ticker is
\* started again, no ticker loop takes a tick and flushes.
C37_NoFlushAfterStop ==
    [][ tickerMode /\ ticker = "stopped" /\ taskPc = "idle" =>
            ~TickFlushes ]_vars


(***************************************************************************)
(* Claims about calls that outlive the state they were admitted in,        *)
(* checked under SpecCB.                                                   *)
(***************************************************************************)
\* Caller c's function returns and afterRequest runs in this step.
ClosedCallEndsInHalfOpen(c) ==
    /\ callPc[c] = "fn"
    /\ callPc'[c] # "fn"
    /\ admitted[c] = StateClosed
    /\ cb.state = StateHalfOpen

\* C39: a call admitted while Closed that completes while the breaker is
\* HalfOpen leaves the probe accounting alone: successCount and
\* requestsInFly keep their values.
C39_OnlyProbesCount ==
    [][ \A c \in AllCallers :
            ClosedCallEndsInHalfOpen(c) =>
                /\ cb'.successCount = cb.successCount
                /\ cb'.requestsInFly = cb.requestsInFly ]_vars


(***************************************************************************)
(* Claims about attempts rejected for their format, checked under          *)
(* SpecRetry.                                                              *)
(***************************************************************************)
\* The executor's attempt ends in this step with ErrInvalidFormat.
FormatRejected == attemptLog' = Append(attemptLog, ErrInvalidFormat)

\* C40: an attempt rejected for an invalid format leaves the breaker's
\* failure count and state as they were.
C40_FormatErrorNotCounted ==
    [][ FormatRejected =>
            /\ cb'.failures = cb.failures
            /\ cb'.state = cb.state ]_vars

====
